---- MODULE Spec2Model ----
(***************************************************************************)
(* A model of the short-link service: the code generator, the URL          *)
(* validator, the repository's cache-aside protocol over the record store  *)
(* (table "urls") and the Redis cache, and the service operations built on *)
(* them.  Request handlers are asyncio coroutines: a handler runs without  *)
(* interruption between two awaits, so every action below is one awaited   *)
(* store or cache call together with the local code that follows it up to  *)
(* the next await.                                                         *)
(*                                                                         *)
(* Strings are sequences of one-character strings.  A timestamp column is  *)
(* a record [kind, t]: kind "datetime" for a datetime object, "str" for    *)
(* its isoformat() text, "none" for None.  The columns updated_at,         *)
(* creator_ip, user_agent and description are passed through by every      *)
(* operation and read by none; they are left out of the rows.              *)
(***************************************************************************)
EXTENDS Integers, Sequences, FiniteSets, TLC

(***************************************************************************)
(* Bounds of the model.                                                    *)
(***************************************************************************)
MaxTime == 2
MaxRequests == 2
MaxSeqRequests == 3
MaxFaultRequests == 2
MaxTargetRequests == 2
MaxCleanupRequests == 3
MaxNameRequests == 2
UtilAlphabetSize == 2
SmallLen == 2
MaxUsed == 3
MaxEscalations == 1
FewAttempts == 2
NegativeCounters == 2
MaxCounter == 56
MaxDigits == 4
AlphabetSize == 1

Handlers == {"h1", "h2"}

\* No run accepts more requests than this, so no more rows are ever inserted.
MaxIds == IF MaxRequests > MaxSeqRequests THEN MaxRequests ELSE MaxSeqRequests

(***************************************************************************)
(* Program constants.                                                      *)
(***************************************************************************)
MaxAttempts == 100
MaxCodeLen == 50
short_url_length == 1
max_url_length == 20

SAFE_CHARS ==
  <<"a", "b", "c", "d", "e", "f", "g", "h", "j", "k", "m", "n", "p", "q", "r",
    "s", "t", "u", "v", "w", "x", "y", "z", "A", "B", "C", "D", "E", "F", "G",
    "H", "I", "J", "K", "M", "N", "P", "Q", "R", "S", "T", "U", "V", "W", "X",
    "Y", "Z", "2", "3", "4", "5", "6", "7", "8", "9">>

LowerLetters ==
  <<"a", "b", "c", "d", "e", "f", "g", "h", "i", "j", "k", "l", "m", "n", "o",
    "p", "q", "r", "s", "t", "u", "v", "w", "x", "y", "z">>

UpperLetters ==
  <<"A", "B", "C", "D", "E", "F", "G", "H", "I", "J", "K", "L", "M", "N", "O",
    "P", "Q", "R", "S", "T", "U", "V", "W", "X", "Y", "Z">>

Digits == <<"0", "1", "2", "3", "4", "5", "6", "7", "8", "9">>

Range(s) == {s[i] : i \in DOMAIN s}

(***************************************************************************)
(* String helpers (str.find, str.startswith, str.lower, str.split).        *)
(***************************************************************************)
Min(S) == CHOOSE x \in S : \A y \in S : x <= y

\* The least index >= from at which a character of chars occurs, 0 if none.
FindAny(s, chars, from) ==
  LET hits == {i \in from..Len(s) : s[i] \in chars}
  IN  IF hits = {} THEN 0 ELSE Min(hits)

StartsWith(s, p) == Len(s) >= Len(p) /\ SubSeq(s, 1, Len(p)) = p

EndsWith(s, p) == Len(s) >= Len(p) /\ SubSeq(s, Len(s) - Len(p) + 1, Len(s)) = p

LowerChar(c) ==
  IF c \in Range(UpperLetters)
  THEN LowerLetters[CHOOSE i \in DOMAIN UpperLetters : UpperLetters[i] = c]
  ELSE c

Lower(s) == [i \in DOMAIN s |-> LowerChar(s[i])]

\* s.split(':')[0]
BeforeColon(s) ==
  LET i == FindAny(s, {":"}, 1)
  IN  IF i = 0 THEN s ELSE SubSeq(s, 1, i - 1)

IsAlnum(c) == c \in Range(LowerLetters) \cup Range(UpperLetters) \cup Range(Digits)

\* str.strip() of the blank
RECURSIVE Strip(_)
Strip(s) ==
  IF s = <<>> THEN s
  ELSE IF Head(s) = " " THEN Strip(Tail(s))
  ELSE IF s[Len(s)] = " " THEN Strip(SubSeq(s, 1, Len(s) - 1))
  ELSE s

(***************************************************************************)
(* Code generator.                                                         *)
(***************************************************************************)
\* The part of SAFE_CHARS the model's random source draws from.
Alphabet == {SAFE_CHARS[i] : i \in 1..AlphabetSize}

\* generate_random: every string of the given length over the alphabet is a
\* possible result of secrets.choice.
generate_random(chars, length) == [1..length -> chars]

GenerateRandom(length) == generate_random(Alphabet, length)

\* str.index of a character of SAFE_CHARS
SafeIndex(c) == (CHOOSE i \in DOMAIN SAFE_CHARS : SAFE_CHARS[i] = c) - 1

RECURSIVE _base62_to_int(_)
_base62_to_int(code) ==
  IF code = <<>> THEN 0
  ELSE _base62_to_int(SubSeq(code, 1, Len(code) - 1)) * Len(SAFE_CHARS)
         + SafeIndex(code[Len(code)])

\* ''.join(reversed(result))
Reversed(s) == [i \in DOMAIN s |-> s[Len(s) + 1 - i]]

\* A check without the ceiling on the length.
AnyLengthValid(code) ==
  /\ code # <<>>
  /\ \A i \in DOMAIN code : code[i] \in Range(SAFE_CHARS)

is_valid_code(code) ==
  /\ code # <<>>
  /\ Len(code) <= MaxCodeLen
  /\ \A i \in DOMAIN code : code[i] \in Range(SAFE_CHARS)

(***************************************************************************)
(* URL validator.                                                          *)
(***************************************************************************)
BLOCKED_SCHEMES ==
  { <<"j", "a", "v", "a", "s", "c", "r", "i", "p", "t">>, <<"d", "a", "t", "a">>,
    <<"v", "b", "s", "c", "r", "i", "p", "t">>, <<"f", "i", "l", "e">>,
    <<"f", "t", "p">> }

ALLOWED_SCHEMES == { <<"h", "t", "t", "p">>, <<"h", "t", "t", "p", "s">> }

BLACKLISTED_DOMAINS ==
  { <<"m", "a", "l", "i", "c", "i", "o", "u", "s", "-", "s", "i", "t", "e", ".",
      "c", "o", "m">>,
    <<"p", "h", "i", "s", "h", "i", "n", "g", "-", "e", "x", "a", "m", "p", "l",
      "e", ".", "c", "o", "m">> }

HttpPrefix == <<"h", "t", "t", "p", ":", "/", "/">>
HttpsPrefix == <<"h", "t", "t", "p", "s", ":", "/", "/">>

SchemeChars == Range(LowerLetters) \cup Range(UpperLetters) \cup Range(Digits)
                 \cup {"+", "-", "."}

\* str.lstrip() of the blank
RECURSIVE LStrip(_)
LStrip(s) == IF s # <<>> /\ Head(s) = " " THEN LStrip(Tail(s)) ELSE s

\* urllib.parse.urlparse, as far as the validator reads its result: the
\* scheme (lower-cased), the netloc, and everything after the netloc.
\* Leading blanks are dropped before the text is split.
UrlParse(raw) ==
  LET url    == LStrip(raw)
      i      == FindAny(url, {":"}, 1)
      hasSch == /\ i > 1
                /\ url[1] \in Range(LowerLetters) \cup Range(UpperLetters)
                /\ \A k \in 1..(i - 1) : url[k] \in SchemeChars
      scheme == IF hasSch THEN Lower(SubSeq(url, 1, i - 1)) ELSE <<>>
      rest   == IF hasSch THEN SubSeq(url, i + 1, Len(url)) ELSE url
      hasNet == StartsWith(rest, <<"/", "/">>)
      delim  == FindAny(rest, {"/", "?", "#"}, 3)
      stop   == IF delim = 0 THEN Len(rest) + 1 ELSE delim
  IN  [scheme |-> scheme,
       netloc |-> IF hasNet THEN SubSeq(rest, 3, stop - 1) ELSE <<>>,
       tail   |-> IF hasNet THEN SubSeq(rest, stop, Len(rest)) ELSE rest]

\* urllib.parse.urlunparse of the parts above.
UrlUnparse(scheme, netloc, tail) ==
  LET body == IF netloc # <<>> \/ StartsWith(tail, <<"/", "/">>)
              THEN <<"/", "/">> \o netloc \o tail
              ELSE tail
  IN  IF scheme # <<>> THEN scheme \o <<":">> \o body ELSE body

_check_length(url) == 0 < Len(url) /\ Len(url) <= max_url_length

_check_scheme(scheme) ==
  IF Lower(scheme) \in BLOCKED_SCHEMES THEN FALSE
  ELSE Lower(scheme) \in ALLOWED_SCHEMES

\* The labels of a dotted name.
RECURSIVE SplitDot(_)
SplitDot(s) ==
  LET i == FindAny(s, {"."}, 1)
  IN  IF i = 0 THEN <<s>>
      ELSE <<SubSeq(s, 1, i - 1)>> \o SplitDot(SubSeq(s, i + 1, Len(s)))

RECURSIVE DecimalValue(_)
DecimalValue(s) ==
  IF s = <<>> THEN 0
  ELSE 10 * DecimalValue(SubSeq(s, 1, Len(s) - 1))
         + (CHOOSE d \in 0..9 : Digits[d + 1] = s[Len(s)])

\* ipaddress.ip_address on a name without ':': four decimal octets.
IsOctet(s) ==
  /\ Len(s) \in 1..3
  /\ \A i \in DOMAIN s : s[i] \in Range(Digits)
  /\ (Len(s) > 1 => s[1] # "0")
  /\ DecimalValue(s) <= 255

IsIPv4(name) ==
  LET parts == SplitDot(name)
  IN  Len(parts) = 4 /\ \A i \in 1..4 : IsOctet(parts[i])

IPv4(name) == [i \in 1..4 |-> DecimalValue(SplitDot(name)[i])]

\* One label of the domain pattern: [a-zA-Z0-9]([a-zA-Z0-9\-]{0,61}[a-zA-Z0-9])?
IsLabel(s) ==
  /\ Len(s) \in 1..63
  /\ IsAlnum(s[1]) /\ IsAlnum(s[Len(s)])
  /\ \A i \in DOMAIN s : IsAlnum(s[i]) \/ s[i] = "-"

_check_domain(netloc) ==
  LET domain == BeforeColon(netloc)
  IN  IF netloc = <<>> THEN FALSE
      ELSE IF domain = <<>> \/ domain[1] = "." \/ domain[Len(domain)] = "."
      THEN FALSE
      ELSE IF IsIPv4(domain) THEN TRUE
      ELSE \A i \in DOMAIN SplitDot(domain) : IsLabel(SplitDot(domain)[i])

_is_blacklisted(netloc) == Lower(BeforeColon(netloc)) \in BLACKLISTED_DOMAINS

InPrivateRange(ip) ==
  \/ ip[1] = 10
  \/ ip[1] = 172 /\ ip[2] \in 16..31
  \/ ip[1] = 192 /\ ip[2] = 168
  \/ ip[1] = 127
  \/ ip[1] = 169 /\ ip[2] = 254

\* The name service: per host name the address it resolves to, NoAddress when
\* the resolution fails.
VARIABLE dns

\* "a.co"
Hosts == { <<"a", ".", "c", "o">> }

NoAddress == <<>>

IsDecimal(s) ==
  /\ s # <<>>
  /\ \A i \in DOMAIN s : s[i] \in Range(Digits)
  /\ (Len(s) > 1 => s[1] # "0")

\* The numbers-and-dots notation the resolver reads without a lookup
\* (inet_aton, decimal parts): one to four parts, the last one filling the
\* bytes that remain.
IsNumeric(name) ==
  LET parts == SplitDot(name)
      n     == Len(parts)
  IN  /\ n \in 1..4
      /\ \A i \in 1..n : IsDecimal(parts[i]) /\ Len(parts[i]) <= 10
      /\ \A i \in 1..(n - 1) : DecimalValue(parts[i]) <= 255
      /\ DecimalValue(parts[n]) < 256 ^ (5 - n)

InetAton(name) ==
  LET parts == SplitDot(name)
      n     == Len(parts)
      last  == DecimalValue(parts[n])
  IN  [i \in 1..4 |->
         IF i < n THEN DecimalValue(parts[i])
         ELSE (last \div (256 ^ (4 - i))) % 256]

\* socket.gethostbyname: a numeric name is its own address, another name is
\* looked up (names are case-insensitive) and gaierror is raised when that
\* fails.
GetHostByName(name) ==
  IF IsNumeric(name) THEN InetAton(name)
  ELSE IF Lower(name) \in DOMAIN dns THEN dns[Lower(name)]
  ELSE NoAddress

\* A check that looks at literal addresses only and resolves no name.
LiteralPrivateOnly(netloc) ==
  IsIPv4(BeforeColon(netloc)) /\ InPrivateRange(IPv4(BeforeColon(netloc)))

_points_to_private_ip(netloc) ==
  LET ip == GetHostByName(BeforeColon(netloc))
  IN  IF ip = NoAddress THEN FALSE ELSE InPrivateRange(ip)

\* A validator that accepts every target.
AnyUrlValid(url) == TRUE

is_valid_url(url) ==
  LET parsed == UrlParse(url)
  IN  IF ~_check_length(url) THEN FALSE
      ELSE IF ~_check_scheme(parsed.scheme) THEN FALSE
      ELSE IF ~_check_domain(parsed.netloc) THEN FALSE
      ELSE IF _is_blacklisted(parsed.netloc) THEN FALSE
      ELSE IF _points_to_private_ip(parsed.netloc) THEN FALSE
      ELSE TRUE

normalize_url(raw) ==
  LET s      == Strip(raw)
      url    == IF StartsWith(s, HttpPrefix) \/ StartsWith(s, HttpsPrefix)
                THEN s ELSE HttpsPrefix \o s
      parsed == UrlParse(url)
      low    == Lower(parsed.netloc)
      netloc == IF EndsWith(low, <<":", "8", "0">>) /\ parsed.scheme = <<"h", "t", "t", "p">>
                THEN SubSeq(low, 1, Len(low) - 3)
                ELSE IF EndsWith(low, <<":", "4", "4", "3">>)
                        /\ parsed.scheme = <<"h", "t", "t", "p", "s">>
                THEN SubSeq(low, 1, Len(low) - 4)
                ELSE low
  IN  UrlUnparse(parsed.scheme, netloc, parsed.tail)


(***************************************************************************)
(* Data: rows of table "urls", URLModel objects, cached dictionaries.      *)
(***************************************************************************)
None == [kind |-> "none", t |-> 0]

DateTime(t) == [kind |-> "datetime", t |-> t]

NoCode == <<>>

\* datetime.isoformat() as to_dict applies it: "x.isoformat() if x else None".
isoformat(v) == IF v.kind = "datetime" THEN [kind |-> "str", t |-> v.t] ELSE v

\* URLModel.to_dict followed by json.dumps / json.loads: every value of the
\* dictionary is a JSON string, number, boolean or null, which the round trip
\* gives back unchanged; the three timestamps have become text.
to_dict(m) ==
  [m EXCEPT !.created_at = isoformat(@),
            !.expires_at = isoformat(@),
            !.last_accessed_at = isoformat(@)]

\* URLModel.is_expired: "true", "false", or "TypeError" when expires_at is
\* text, which datetime's > does not accept.
is_expired(m, clock) ==
  IF m.expires_at.kind = "none" THEN "false"
  ELSE IF m.expires_at.kind = "str" THEN "TypeError"
  ELSE IF clock > m.expires_at.t THEN "true" ELSE "false"

VARIABLES
  store,        \* the rows of table "urls"
  nextId,       \* the table's AUTO_INCREMENT counter
  cache,        \* the Redis keys "url:<code>": [val: dictionary, crossed: BOOLEAN]
  now,          \* the clock, in days
  expiry_days,  \* settings.url_expiry_days of the running process
  pc,           \* per handler: the await it is suspended at
  req,          \* per handler: the request it serves
  loc,          \* per handler: its local variables
  out,          \* per handler: what its last request returned or raised
  started,      \* requests accepted so far
  clicked,      \* history: per row id, the increment statements that matched it
  hist,         \* history: per handler, the request it served before this one
  util,         \* the call of a utility function in progress or returned
  generator     \* a ShortURLGenerator object: its length and its used_codes

vars ==
  <<store, nextId, cache, now, expiry_days, pc, req, loc, out, started, clicked, hist,
    util, generator, dns>>

StoreByCode(code) == {r \in store : r.short_code = code}

StoreByAlias(alias) == {r \in store : r.custom_alias = alias}

StoreById(id) == {r \in store : r.id = id}

\* CacheManager.get on key "url:<code>" and _get_cached_url's rebuilding of a
\* URLModel from the dictionary: the object's attributes are the dictionary's
\* values as they are.
CacheLookup(code) == {e.val : e \in {x \in cache : x.val.short_code = code}}

\* CacheManager.set(key, json, expire=3600)
CacheSet(d) ==
  {e \in cache : e.val.short_code # d.short_code} \cup {[val |-> d, crossed |-> FALSE]}

\* CacheManager.delete(key)
CacheDelete(code) == {e \in cache : e.val.short_code # code}

(***************************************************************************)
(* Requests, locals and results.                                           *)
(***************************************************************************)
Promo == <<"p", "r", "o", "m", "o">>

UrlA == <<"h", "t", "t", "p", "s", ":", "/", "/", "a", ".", "c", "o">>

UrlB == <<"h", "t", "t", "p", ":", "/", "/", "b", ".", "c", "o", ":", "8", "0">>

UrlBad == <<"a", ".", "c", "o">>

\* "example.com"
UrlExample == <<"e", "x", "a", "m", "p", "l", "e", ".", "c", "o", "m">>

\* "https://a.co/aaaaaaaaa": longer than max_url_length, nothing else wrong.
UrlLong ==
  <<"h", "t", "t", "p", "s", ":", "/", "/", "a", ".", "c", "o", "/", "a", "a", "a",
    "a", "a", "a", "a", "a", "a">>

\* "http://10.0.0.1"
UrlLocal == <<"h", "t", "t", "p", ":", "/", "/", "1", "0", ".", "0", ".", "0", ".", "1">>

\* "javascript:a"
UrlScript == <<"j", "a", "v", "a", "s", "c", "r", "i", "p", "t", ":", "a">>

Aliases == {Promo}

AllCodes == GenerateRandom(short_url_length) \cup GenerateRandom(short_url_length + 1)
              \cup Aliases

\* A request; column is the key of an update's update_data.
Req(op, url, alias, days, code, id) ==
  [op |-> op, url |-> url, alias |-> alias, days |-> days, code |-> code, id |-> id,
   column |-> "original_url"]

NoReq == Req("none", <<>>, NoCode, 0, NoCode, 0)

\* The locals of a handler.  Those from hit on are history, read by the
\* properties only: whether the last cache read hit, what it served and what
\* the table held for the key at that moment; the candidates checked and the
\* inserts tried so far; the clock and the rows under the request's key when
\* the request arrived (recorded when the workload tracks); the kind of error
\* the request met ("none", "cache", "read", "write"; "off": not recorded)
\* and the table when it arrived (recorded when the workload records faults).
NoLoc ==
  [rec |-> {}, key |-> NoCode, ret |-> "none", cand |-> NoCode, code |-> NoCode,
   norm |-> <<>>, expires |-> None, attempt |-> 0, round |-> 1,
   length |-> short_url_length, rowcount |-> 0,
   hit |-> FALSE, served |-> {}, truth |-> {}, checks |-> 0, inserts |-> 0,
   pre |-> {}, t0 |-> 0, fault |-> "off", before |-> {}]

NoOut == [kind |-> "none", code |-> NoCode, rec |-> {}, n |-> 0, url |-> <<>>]

\* Of a handler's previous request: the request, its result, and the rows
\* under its key when it arrived; of all its earlier requests: the codes a
\* get_url_by_short_code found absent (recorded when the workload asks).
NoHist == [req |-> NoReq, out |-> NoOut, pre |-> {}, t0 |-> 0, absent |-> {}]

Result(kind) == [NoOut EXCEPT !.kind = kind]

Exists(code) == [NoOut EXCEPT !.kind = "ShortURLExistsError", !.code = code]

Bool(b) == Result(IF b THEN "True" ELSE "False")

InFlight(h) == pc[h] \notin {"idle", "done"}

\* What a finished handler keeps of its locals: what the properties read;
\* the rest is garbage once the coroutine has returned.
Kept(l) ==
  [NoLoc EXCEPT !.hit = l.hit, !.served = l.served, !.truth = l.truth,
                !.length = l.length, !.round = l.round, !.checks = l.checks,
                !.inserts = l.inserts, !.pre = l.pre, !.t0 = l.t0,
                !.fault = l.fault, !.before = l.before]

Set(h, label, l, o) ==
  /\ pc' = [pc EXCEPT ![h] = label]
  /\ loc' = [loc EXCEPT ![h] = l]
  /\ out' = [out EXCEPT ![h] = o]

Finish(h, l, o) == Set(h, "done", Kept(l), o)

Goto(h, l, label) == Set(h, label, l, out[h])

\* History: the request met a cache error and, so far, no store error.
CacheFault(l) == IF l.fault = "none" THEN [l EXCEPT !.fault = "cache"] ELSE l

\* History: the request met a store error, in a read ("read") or in a write
\* ("write"); the write is remembered.
StoreFault(l, kind) ==
  IF l.fault = "off" \/ l.fault = "write" THEN l ELSE [l EXCEPT !.fault = kind]

The(S) == CHOOSE x \in S : TRUE


(***************************************************************************)
(* The record store's statements.  Each is one atomic step of the store:   *)
(* InnoDB applies a single-row UPDATE, DELETE or INSERT under the row's    *)
(* lock and checks the unique indexes inside the INSERT.                   *)
(***************************************************************************)
NewRow(id, url, code, expires, alias) ==
  [id |-> id, original_url |-> url, short_code |-> code,
   created_at |-> DateTime(now), expires_at |-> expires, is_active |-> TRUE,
   click_count |-> 0, last_accessed_at |-> None, custom_alias |-> alias]

\* A table without the unique indexes: no INSERT violates anything.
NoUniqueIndex(code, alias) == {}

\* A table whose only unique index is the one on custom_alias.
AliasIndexOnly(code, alias) ==
  {c \in {"custom_alias"} : alias # NoCode /\ StoreByAlias(alias) # {}}

\* The unique indexes an INSERT of (code, alias) would violate.
UniqueViolations(code, alias) ==
  {c \in {"short_code"} : StoreByCode(code) # {}}
    \cup {c \in {"custom_alias"} : alias # NoCode /\ StoreByAlias(alias) # {}}

\* str(IntegrityError): the driver's message, which names the violated key,
\* and the failed statement "INSERT INTO urls (original_url, short_code, ...,
\* custom_alias) VALUES ...", which names every inserted column.
IntegrityText(violated) == violated \cup {"original_url", "short_code", "custom_alias"}

\* create_url's except IntegrityError branch.
IntegrityResult(violated, code, alias) ==
  IF "short_code" \in IntegrityText(violated) THEN Exists(code)
  ELSE IF "custom_alias" \in IntegrityText(violated) THEN Exists(alias)
  ELSE Result("DatabaseError")

\* The increment as a read followed by a write: the count written is one
\* more than the count of the object the handler read earlier.
IncrementFromObject(code, seen) ==
  {IF r.short_code = code
   THEN [r EXCEPT !.click_count = (IF seen = {} THEN @ ELSE The(seen).click_count) + 1,
                  !.last_accessed_at = DateTime(now)]
   ELSE r : r \in store}

\* UPDATE urls SET click_count = click_count + 1, last_accessed_at = now
\* WHERE short_code = code.  The new count is computed by the store from the
\* row; the object the calling handler holds (seen) has no part in it.
IncrementRows(code, seen) ==
  {IF r.short_code = code
   THEN [r EXCEPT !.click_count = @ + 1, !.last_accessed_at = DateTime(now)]
   ELSE r : r \in store}

\* UPDATE urls SET is_active = false WHERE short_code = code
DeactivateRows(code) ==
  {IF r.short_code = code THEN [r EXCEPT !.is_active = FALSE] ELSE r : r \in store}

\* DELETE FROM urls WHERE short_code = code
DeleteRows(code) == {r \in store : r.short_code # code}

\* A WHERE clause without "is_active == True".
ExpiredAny == {r \in store : r.expires_at.kind # "none" /\ r.expires_at.t < now}

\* The rows cleanup_expired_urls' WHERE clause selects.
ExpiredActive ==
  {r \in store : r.expires_at.kind # "none" /\ r.expires_at.t < now /\ r.is_active}

CleanupRows ==
  {IF r \in ExpiredActive THEN [r EXCEPT !.is_active = FALSE] ELSE r : r \in store}

\* "a", as an alias.
FirstAlias == <<"a">>

\* The value update_data gives the column: the request's URL, True, 0, "a".
UpdateValue(r) ==
  CASE r.column = "original_url" -> r.url
    [] r.column = "is_active" -> TRUE
    [] r.column = "click_count" -> 0
    [] r.column = "custom_alias" -> FirstAlias

\* UPDATE urls SET <column> = <value> WHERE id = id RETURNING urls.*, the
\* column and value being update_data's, whatever they are.
UpdateRows(id, column, value) ==
  {IF r.id = id THEN [r EXCEPT ![column] = value] ELSE r : r \in store}

\* An expiry computed from the setting first: the request's expires_in_days
\* counts only when the setting gives none.
ExpirySettingFirst(days) ==
  IF expiry_days > 0 THEN DateTime(now + expiry_days)
  ELSE IF days # 0 THEN DateTime(now + days)
  ELSE None

\* create_short_url's computation of expires_at.
Expiry(days) ==
  IF days # 0 THEN DateTime(now + days)
  ELSE IF expiry_days > 0 THEN DateTime(now + expiry_days)
  ELSE None

(***************************************************************************)
(* What a handler does when an awaited call returns: the code up to the    *)
(* next await.  l is the handler's locals as the call left them.           *)
(***************************************************************************)
\* The loop with one attempt too many in each round.
AfterCheckOneMore(h, l) ==
  IF l.rec = {}
  THEN Goto(h, [l EXCEPT !.code = l.cand, !.expires = Expiry(req[h].days)], "insert")
  ELSE IF l.attempt + 1 <= MaxAttempts
  THEN \E c \in GenerateRandom(l.length) :
         Goto(h, [l EXCEPT !.attempt = @ + 1, !.checks = @ + 1, !.cand = c,
                           !.key = c, !.rec = {}],
              "cache_get")
  ELSE IF l.round = 1
  THEN \E c \in GenerateRandom(l.length + 1) :
         Goto(h, [l EXCEPT !.attempt = 0, !.round = 2, !.length = @ + 1,
                           !.checks = @ + 1, !.cand = c, !.key = c, !.rec = {}],
              "cache_get")
  ELSE Finish(h, l, Result("ShortURLGenerationError"))

\* _generate_unique_short_code after get_url_by_short_code(candidate).
AfterCheck(h, l) ==
  IF l.rec = {}
  THEN Goto(h, [l EXCEPT !.code = l.cand, !.expires = Expiry(req[h].days)], "insert")
  ELSE IF l.attempt + 1 < MaxAttempts
  THEN \E c \in GenerateRandom(l.length) :
         Goto(h, [l EXCEPT !.attempt = @ + 1, !.checks = @ + 1, !.cand = c,
                           !.key = c, !.rec = {}],
              "cache_get")
  ELSE IF l.round = 1
  THEN \E c \in GenerateRandom(l.length + 1) :
         Goto(h, [l EXCEPT !.attempt = 0, !.round = 2, !.length = @ + 1,
                           !.checks = @ + 1, !.cand = c, !.key = c, !.rec = {}],
              "cache_get")
  ELSE Finish(h, l, Result("ShortURLGenerationError"))

\* resolve_short_url's checks of the record it found.
ResolveCheck(h, l) ==
  IF l.rec = {} THEN Finish(h, l, Result("URLNotFoundError"))
  ELSE IF ~The(l.rec).is_active THEN Finish(h, l, Result("URLNotFoundError"))
  ELSE IF is_expired(The(l.rec), now) = "TypeError" THEN Finish(h, l, Result("TypeError"))
  ELSE IF is_expired(The(l.rec), now) = "true" THEN Finish(h, l, Result("URLExpiredError"))
  ELSE Goto(h, [l EXCEPT !.key = req[h].code, !.ret = "resolved"], "increment")

\* get_url_info's response, which evaluates is_expired.
InfoResult(h, l) ==
  IF l.rec = {} THEN Finish(h, l, Result("URLNotFoundError"))
  ELSE IF is_expired(The(l.rec), now) = "TypeError" THEN Finish(h, l, Result("TypeError"))
  ELSE Finish(h, l, [Result("info") EXCEPT !.rec = l.rec])

Return(h, l) ==
  CASE l.ret = "checked" -> AfterCheck(h, l)
    [] l.ret = "created" ->
         Finish(h, l, [Result("created") EXCEPT !.rec = l.rec, !.code = l.code])
    [] l.ret = "resolve" ->
         IF l.rec = {} THEN Goto(h, l, "resolve_alias") ELSE ResolveCheck(h, l)
    [] l.ret = "info" ->
         IF l.rec = {} THEN Goto(h, l, "info_alias") ELSE InfoResult(h, l)
    [] l.ret = "deactivate" ->
         IF l.rec = {} THEN Finish(h, l, Result("URLNotFoundError"))
         ELSE Goto(h, [l EXCEPT !.key = req[h].code, !.ret = "deactivated"],
                   "deactivate_rows")
    [] l.ret = "delete" ->
         IF l.rec = {} THEN Finish(h, l, Result("URLNotFoundError"))
         ELSE Goto(h, [l EXCEPT !.key = req[h].code, !.ret = "deleted"], "delete_rows")
    [] l.ret = "get" -> Finish(h, l, [Result("record") EXCEPT !.rec = l.rec])
    [] l.ret = "updated" -> Finish(h, l, [Result("record") EXCEPT !.rec = l.rec])
    [] l.ret = "resolved" ->
         Finish(h, l, [Result("url") EXCEPT !.url = The(l.rec).original_url])
    [] l.ret \in {"incremented", "deactivated", "deleted"} ->
         Finish(h, l, Bool(l.rowcount > 0))


(***************************************************************************)
(* Requests arriving.  w is the workload: w.limit requests are accepted,   *)
(* creates ask for an alias of w.aliases (NoCode: none) and an expiry of   *)
(* w.days, and w.track says whether the history of a handler's previous    *)
(* request is recorded (the sequential properties read it).                *)
(***************************************************************************)
Targets == {UrlA, UrlBad}

Load(limit, track, aliases, days) ==
  [limit |-> limit, track |-> track, aliases |-> aliases, days |-> days,
   faults |-> FALSE, targets |-> Targets, columns |-> {"original_url"},
   timed |-> FALSE, misses |-> FALSE]

\* The workload w, with the faults of each request recorded in its locals.
Recorded(w) == [w EXCEPT !.faults = TRUE]

\* The workload w, its creates asking for the given targets.
Aimed(w, targets) == [w EXCEPT !.targets = targets]

\* The workload w, with the clock at the arrival of the previous request
\* recorded.
Timed(w) == [w EXCEPT !.timed = TRUE]

\* The workload w, with the codes its lookups found absent recorded.
Missing(w) == [w EXCEPT !.misses = TRUE]

\* The workload w, its updates writing any of the given columns.
Writing(w, columns) == [w EXCEPT !.columns = columns]

Begin(h, r, w) ==
  /\ ~InFlight(h)
  /\ started < w.limit
  /\ started' = started + 1
  /\ req' = [req EXCEPT ![h] = r]
  /\ hist' = IF w.track
             THEN [hist EXCEPT ![h] = [req |-> req[h], out |-> out[h], pre |-> loc[h].pre,
                                       t0 |-> IF w.timed THEN loc[h].t0 ELSE 0,
                                       absent |->
                                         IF /\ w.misses /\ req[h].op = "get"
                                            /\ out[h].kind = "record" /\ out[h].rec = {}
                                         THEN hist[h].absent \cup {req[h].code}
                                         ELSE hist[h].absent]]
             ELSE hist
  /\ UNCHANGED <<store, nextId, cache, now, expiry_days, clicked, util, generator, dns>>

Fresh(rows, w) ==
  [NoLoc EXCEPT !.pre = IF w.track THEN rows ELSE {}, !.t0 = IF w.track THEN now ELSE 0,
                !.fault = IF w.faults THEN "none" ELSE "off",
                !.before = IF w.faults THEN store ELSE {}]

\* A hook that looks the normalized target up in the table.
FindByTarget(url) == {r \in store : r.original_url = url}

\* _find_existing_url: "return None", whatever the target.
_find_existing_url(url) == {}

\* The records create_short_url answers with instead of creating.
Reusable(url) ==
  {e \in _find_existing_url(url) : e.is_active /\ is_expired(e, now) = "false"}

\* create_short_url up to its first await that suspends (_find_existing_url
\* is a coroutine without an await of its own).
StartCreate(h, w) ==
  \E u \in w.targets, a \in w.aliases, d \in w.days :
    /\ Begin(h, Req("create", u, a, d, NoCode, 0), w)
    /\ LET l0 == Fresh(StoreByAlias(a), w)
           l1 == [l0 EXCEPT !.norm = normalize_url(u)]
       IN  IF ~is_valid_url(u) THEN Finish(h, l0, Result("InvalidURLError"))
           ELSE IF Len(u) > max_url_length THEN Finish(h, l0, Result("URLTooLongError"))
           ELSE IF Reusable(l1.norm) # {}
           THEN \E e \in Reusable(l1.norm) :
                  Finish(h, l0, [Result("created") EXCEPT !.rec = {e}, !.code = e.short_code])
           ELSE IF a # NoCode THEN Set(h, "alias_select", l1, NoOut)
           ELSE \E c \in GenerateRandom(l1.length) :
                  Set(h, "cache_get",
                      [l1 EXCEPT !.cand = c, !.key = c, !.ret = "checked", !.checks = 1],
                      NoOut)

\* The service operations that first look the code up.
StartLookup(h, op, w) ==
  \E c \in AllCodes :
    /\ Begin(h, Req(op, <<>>, NoCode, 0, c, 0), w)
    /\ Set(h, "cache_get",
           [Fresh(StoreByCode(c) \cup StoreByAlias(c), w) EXCEPT !.key = c, !.ret = op],
           NoOut)

StartResolve(h, w) == StartLookup(h, "resolve", w)

StartInfo(h, w) == StartLookup(h, "info", w)

StartDeactivate(h, w) == StartLookup(h, "deactivate", w)

StartDelete(h, w) == StartLookup(h, "delete", w)

\* URLRepository.get_url_by_short_code called on its own.
StartGet(h, w) == StartLookup(h, "get", w)

StartCleanup(h, w) ==
  /\ Begin(h, Req("cleanup", <<>>, NoCode, 0, NoCode, 0), w)
  /\ Set(h, "cleanup_rows", Fresh({}, w), NoOut)

\* URLRepository.update_url(id, update_data), update_data being one of
\* {"original_url": url}, {"is_active": True}, {"click_count": 0}.
StartUpdate(h, w) ==
  \E id \in 1..MaxIds, c \in w.columns :
    /\ Begin(h, [Req("update", UrlB, NoCode, 0, NoCode, id) EXCEPT !.column = c], w)
    /\ Set(h, "update_rows", Fresh(StoreById(id), w), NoOut)

\* URLRepository.increment_click_count called on its own.
StartIncrement(h, w) ==
  \E c \in AllCodes :
    /\ Begin(h, Req("increment", <<>>, NoCode, 0, c, 0), w)
    /\ Set(h, "increment",
           [Fresh(StoreByCode(c), w) EXCEPT !.key = c, !.ret = "incremented"], NoOut)

(***************************************************************************)
(* The awaited calls.                                                      *)
(***************************************************************************)
Local == <<now, expiry_days, req, started, hist, util, generator, dns>>

\* A lookup that reads the table even when the cache has the code.
CacheGetThenSelect(h) ==
  /\ pc[h] = "cache_get"
  /\ Goto(h, [loc[h] EXCEPT !.hit = CacheLookup(loc[h].key) # {},
                            !.served = CacheLookup(loc[h].key),
                            !.truth = StoreByCode(loc[h].key)], "select")
  /\ UNCHANGED <<store, nextId, cache, clicked, Local>>

\* _get_cached_url: a hit returns the rebuilt object to the caller.
CacheGet(h) ==
  /\ pc[h] = "cache_get"
  /\ LET l == loc[h] IN
       IF CacheLookup(l.key) # {}
       THEN Return(h, [l EXCEPT !.rec = CacheLookup(l.key), !.hit = TRUE,
                                !.served = CacheLookup(l.key),
                                !.truth = StoreByCode(l.key)])
       ELSE Goto(h, [l EXCEPT !.hit = FALSE, !.served = {}, !.truth = {}], "select")
  /\ UNCHANGED <<store, nextId, cache, clicked, Local>>

\* CacheManager.get catches the Redis error and returns None.
CacheGetFail(h) ==
  /\ pc[h] = "cache_get"
  /\ Goto(h, [CacheFault(loc[h]) EXCEPT !.hit = FALSE, !.served = {}, !.truth = {}],
          "select")
  /\ UNCHANGED <<store, nextId, cache, clicked, Local>>

\* A lookup that remembers in the cache that the table has no row of the
\* code: an entry without id, inactive.
SelectCachingMiss(h) ==
  /\ pc[h] = "select"
  /\ LET l == loc[h] IN
       IF StoreByCode(l.key) # {}
       THEN Goto(h, [l EXCEPT !.rec = StoreByCode(l.key)], "cache_set") /\ cache' = cache
       ELSE /\ Return(h, [l EXCEPT !.rec = {}])
            /\ cache' = CacheSet([id |-> 0, original_url |-> <<>>, short_code |-> l.key,
                                  created_at |-> None, expires_at |-> None,
                                  is_active |-> FALSE, click_count |-> 0,
                                  last_accessed_at |-> None, custom_alias |-> NoCode])
  /\ UNCHANGED <<store, nextId, clicked, Local>>

\* A lookup that stamps last_accessed_at on the row it reads.
SelectTouching(h) ==
  /\ pc[h] = "select"
  /\ LET l == loc[h] IN
       IF StoreByCode(l.key) # {}
       THEN Goto(h, [l EXCEPT !.rec = StoreByCode(l.key)], "cache_set")
       ELSE Return(h, [l EXCEPT !.rec = {}])
  /\ store' = {IF r.short_code = loc[h].key
               THEN [r EXCEPT !.last_accessed_at = DateTime(now)] ELSE r : r \in store}
  /\ UNCHANGED <<nextId, cache, clicked, Local>>

\* get_url_by_short_code's SELECT.
Select(h) ==
  /\ pc[h] = "select"
  /\ LET l == loc[h] IN
       IF StoreByCode(l.key) # {}
       THEN Goto(h, [l EXCEPT !.rec = StoreByCode(l.key)], "cache_set")
       ELSE Return(h, [l EXCEPT !.rec = {}])
  /\ UNCHANGED <<store, nextId, cache, clicked, Local>>

\* _cache_url of the object in l.rec.
CacheFill(h) ==
  /\ pc[h] = "cache_set"
  /\ cache' = CacheSet(to_dict(The(loc[h].rec)))
  /\ Return(h, loc[h])
  /\ UNCHANGED <<store, nextId, clicked, Local>>

\* CacheManager.set catches the Redis error.
CacheFillFail(h) ==
  /\ pc[h] = "cache_set"
  /\ Return(h, CacheFault(loc[h]))
  /\ UNCHANGED <<store, nextId, cache, clicked, Local>>

\* _invalidate_cache of key l.key.
CacheInvalidate(h) ==
  /\ pc[h] = "cache_delete"
  /\ cache' = CacheDelete(loc[h].key)
  /\ Return(h, loc[h])
  /\ UNCHANGED <<store, nextId, clicked, Local>>

\* The error of the cache delete reaching the caller's except branch, which
\* rolls back (nothing: the commit is done) and returns False.
InvalidateRaised(h, l) == Return(h, [l EXCEPT !.rowcount = 0])

\* RedisCache.delete catches the error and returns False; _invalidate_cache
\* ignores the value and the caller goes on.
InvalidateFailed(h, l) == Return(h, l)

\* CacheManager.delete catches the Redis error.
CacheInvalidateFail(h) ==
  /\ pc[h] = "cache_delete"
  /\ InvalidateFailed(h, CacheFault(loc[h]))
  /\ UNCHANGED <<store, nextId, cache, clicked, Local>>

\* The availability check left out.
AliasNeverTaken(alias) == FALSE

\* get_url_by_custom_alias in _generate_unique_short_code.
AliasTaken(alias) == StoreByAlias(alias) # {}

AliasSelect(h) ==
  /\ pc[h] = "alias_select"
  /\ IF AliasTaken(req[h].alias)
     THEN Finish(h, loc[h], Exists(req[h].alias))
     ELSE Goto(h, [loc[h] EXCEPT !.code = req[h].alias,
                                 !.expires = Expiry(req[h].days)], "insert")
  /\ UNCHANGED <<store, nextId, cache, clicked, Local>>

\* create_url: session.add and commit.
Insert(h) ==
  /\ pc[h] = "insert"
  /\ LET l   == [loc[h] EXCEPT !.inserts = @ + 1]
         bad == UniqueViolations(l.code, req[h].alias)
         row == NewRow(nextId, l.norm, l.code, l.expires, req[h].alias)
     IN  IF bad = {}
         THEN /\ store' = store \cup {row}
              /\ nextId' = nextId + 1
              /\ Goto(h, [l EXCEPT !.rec = {row}], "refresh")
         ELSE /\ Finish(h, l, IntegrityResult(bad, l.code, req[h].alias))
              /\ UNCHANGED <<store, nextId>>
  /\ UNCHANGED <<cache, clicked, Local>>

\* create_url: session.refresh reads the row back by its id.
Refresh(h) ==
  /\ pc[h] = "refresh"
  /\ LET rows == StoreById(The(loc[h].rec).id) IN
       IF rows = {} THEN Finish(h, loc[h], Result("DatabaseError"))
       ELSE Goto(h, [loc[h] EXCEPT !.rec = rows, !.ret = "created"], "cache_set")
  /\ UNCHANGED <<store, nextId, cache, clicked, Local>>

ResolveAlias(h) ==
  /\ pc[h] = "resolve_alias"
  /\ ResolveCheck(h, [loc[h] EXCEPT !.rec = StoreByAlias(req[h].code)])
  /\ UNCHANGED <<store, nextId, cache, clicked, Local>>

InfoAlias(h) ==
  /\ pc[h] = "info_alias"
  /\ InfoResult(h, [loc[h] EXCEPT !.rec = StoreByAlias(req[h].code)])
  /\ UNCHANGED <<store, nextId, cache, clicked, Local>>

\* increment_click_count: the UPDATE and its commit.
Increment(h) ==
  /\ pc[h] = "increment"
  /\ store' = IncrementRows(loc[h].key, loc[h].rec)
  /\ clicked' = [i \in DOMAIN clicked |->
                   IF \E r \in StoreByCode(loc[h].key) : r.id = i
                   THEN clicked[i] + 1 ELSE clicked[i]]
  /\ Goto(h, [loc[h] EXCEPT !.rowcount = Cardinality(StoreByCode(loc[h].key))],
          "cache_delete")
  /\ UNCHANGED <<nextId, cache, Local>>

Deactivate(h) ==
  /\ pc[h] = "deactivate_rows"
  /\ store' = DeactivateRows(loc[h].key)
  /\ Goto(h, [loc[h] EXCEPT !.rowcount = Cardinality(StoreByCode(loc[h].key))],
          "cache_delete")
  /\ UNCHANGED <<nextId, cache, clicked, Local>>

\* A delete_url that reports success whether or not a row was there.
DeleteBlind(h) ==
  /\ pc[h] = "delete_rows"
  /\ store' = DeleteRows(loc[h].key)
  /\ Goto(h, [loc[h] EXCEPT !.rowcount = 1], "cache_delete")
  /\ UNCHANGED <<nextId, cache, clicked, Local>>

\* delete_url: the DELETE and its commit.
Delete(h) ==
  /\ pc[h] = "delete_rows"
  /\ store' = DeleteRows(loc[h].key)
  /\ Goto(h, [loc[h] EXCEPT !.rowcount = Cardinality(StoreByCode(loc[h].key))],
          "cache_delete")
  /\ UNCHANGED <<nextId, cache, clicked, Local>>

\* cleanup_expired_urls: one bulk UPDATE; the cache is not touched.
Cleanup(h) ==
  /\ pc[h] = "cleanup_rows"
  /\ store' = CleanupRows
  /\ Finish(h, loc[h], [Result("count") EXCEPT !.n = Cardinality(ExpiredActive)])
  /\ UNCHANGED <<nextId, cache, clicked, Local>>

\* update_url: UPDATE ... RETURNING and commit; the cache write follows.
Update(h) ==
  /\ pc[h] = "update_rows"
  /\ store' = UpdateRows(req[h].id, req[h].column, UpdateValue(req[h]))
  /\ IF StoreById(req[h].id) = {}
     THEN Finish(h, loc[h], [Result("record") EXCEPT !.rec = {}])
     ELSE Goto(h, [loc[h] EXCEPT
                     !.rec = {[r EXCEPT ![req[h].column] = UpdateValue(req[h])] :
                                r \in StoreById(req[h].id)},
                     !.ret = "updated"], "cache_set")
  /\ UNCHANGED <<nextId, cache, clicked, Local>>

(***************************************************************************)
(* Store errors: the statement or its commit raises (connection lost,      *)
(* timeout), the except branch rolls the session back and nothing is       *)
(* written.                                                                *)
(***************************************************************************)
\* get_url_by_short_code's except branch: None.
SelectFail(h) ==
  /\ pc[h] = "select"
  /\ Return(h, StoreFault([loc[h] EXCEPT !.rec = {}], "read"))
  /\ UNCHANGED <<store, nextId, cache, clicked, Local>>

\* get_url_by_custom_alias' except branch: None, and the alias passes for free.
AliasSelectFail(h) ==
  /\ pc[h] = "alias_select"
  /\ Goto(h, [StoreFault(loc[h], "read") EXCEPT !.code = req[h].alias,
                                                 !.expires = Expiry(req[h].days)],
          "insert")
  /\ UNCHANGED <<store, nextId, cache, clicked, Local>>

ResolveAliasFail(h) ==
  /\ pc[h] = "resolve_alias"
  /\ ResolveCheck(h, StoreFault([loc[h] EXCEPT !.rec = {}], "read"))
  /\ UNCHANGED <<store, nextId, cache, clicked, Local>>

InfoAliasFail(h) ==
  /\ pc[h] = "info_alias"
  /\ InfoResult(h, StoreFault([loc[h] EXCEPT !.rec = {}], "read"))
  /\ UNCHANGED <<store, nextId, cache, clicked, Local>>

\* create_url's except Exception branch, the commit having failed.
InsertFail(h) ==
  /\ pc[h] = "insert"
  /\ Finish(h, StoreFault([loc[h] EXCEPT !.inserts = @ + 1], "write"),
            Result("DatabaseError"))
  /\ UNCHANGED <<store, nextId, cache, clicked, Local>>

\* create_url's except Exception branch, the refresh having failed: the row
\* is committed.
RefreshFail(h) ==
  /\ pc[h] = "refresh"
  /\ Finish(h, StoreFault(loc[h], "write"), Result("DatabaseError"))
  /\ UNCHANGED <<store, nextId, cache, clicked, Local>>

\* update_url's except branch.
UpdateFail(h) ==
  /\ pc[h] = "update_rows"
  /\ Finish(h, StoreFault(loc[h], "write"), Result("DatabaseError"))
  /\ UNCHANGED <<store, nextId, cache, clicked, Local>>

\* An increment_click_count whose except branch raised DatabaseError.
IncrementRaised(h, l) == Finish(h, l, Result("DatabaseError"))

\* increment_click_count's except branch: rollback, return False.
IncrementFailed(h, l) == Return(h, [l EXCEPT !.rowcount = 0])

IncrementFail(h) ==
  /\ pc[h] = "increment"
  /\ IncrementFailed(h, StoreFault(loc[h], "write"))
  /\ UNCHANGED <<store, nextId, cache, clicked, Local>>

\* deactivate_url's except branch: rollback, return False.
DeactivateFail(h) ==
  /\ pc[h] = "deactivate_rows"
  /\ Return(h, [StoreFault(loc[h], "write") EXCEPT !.rowcount = 0])
  /\ UNCHANGED <<store, nextId, cache, clicked, Local>>

\* delete_url's except branch: rollback, return False.
DeleteFail(h) ==
  /\ pc[h] = "delete_rows"
  /\ Return(h, [StoreFault(loc[h], "write") EXCEPT !.rowcount = 0])
  /\ UNCHANGED <<store, nextId, cache, clicked, Local>>

\* cleanup_expired_urls' except branch: rollback, return 0.
CleanupFail(h) ==
  /\ pc[h] = "cleanup_rows"
  /\ Finish(h, StoreFault(loc[h], "write"), Result("count"))
  /\ UNCHANGED <<store, nextId, cache, clicked, Local>>

(***************************************************************************)
(* The environment: the clock and Redis' expiry of keys.  A key lives for  *)
(* 3600 seconds, less than a day: a key written since the last tick may    *)
(* live through the next one, no key lives through two.                    *)
(***************************************************************************)
Tick ==
  /\ now < MaxTime
  /\ now' = now + 1
  /\ cache' = {[e EXCEPT !.crossed = TRUE] : e \in {x \in cache : ~x.crossed}}
  /\ UNCHANGED <<store, nextId, expiry_days, pc, req, loc, out, started, clicked, hist,
                 util, generator, dns>>

Evict ==
  /\ \E e \in cache : cache' = cache \ {e}
  /\ UNCHANGED <<store, nextId, now, expiry_days, pc, req, loc, out, started, clicked, hist,
                 util, generator, dns>>

(***************************************************************************)
(* Specifications.                                                         *)
(***************************************************************************)
\* The row an earlier request create(UrlA, alias Promo) has inserted at day 0.
SeedRow(expires) ==
  [id |-> 1, original_url |-> normalize_url(UrlA), short_code |-> Promo,
   created_at |-> DateTime(0), expires_at |-> expires, is_active |-> TRUE,
   click_count |-> 0, last_accessed_at |-> None, custom_alias |-> Promo]

\* No utility call made.
NoCall == [f |-> "none"]

\* ShortURLGenerator.__init__, with the history of the object: how often its
\* length was raised, and the codes generate_unique handed out.
ShortURLGenerator(length) ==
  [length |-> length, used_codes |-> {}, escalated |-> 0, issued |-> <<>>]

Quiet ==
  /\ util = NoCall
  /\ cache = {}
  /\ now = 0
  /\ pc = [h \in Handlers |-> "idle"]
  /\ req = [h \in Handlers |-> NoReq]
  /\ loc = [h \in Handlers |-> NoLoc]
  /\ out = [h \in Handlers |-> NoOut]
  /\ started = 0
  /\ clicked = [i \in 1..MaxIds |-> 0]
  /\ hist = [h \in Handlers |-> NoHist]

\* No request in flight, and a name service that knows no name.
Idle ==
  /\ Quiet
  /\ generator = ShortURLGenerator(short_url_length)
  /\ dns = [h \in Hosts |-> NoAddress]

\* The service right after start-up, on an empty table.
InitEmpty == Idle /\ store = {} /\ nextId = 1

\* The service on an empty table, or on a table that holds the row of one
\* earlier create whose cache key has expired since.
InitSeeded ==
  /\ Idle
  /\ \/ store = {} /\ nextId = 1
     \/ \E e \in {None, DateTime(1)} : store = {SeedRow(e)} /\ nextId = 2

Step(h) ==
  \/ CacheGet(h) \/ CacheGetFail(h) \/ Select(h)
  \/ CacheFill(h) \/ CacheFillFail(h)
  \/ CacheInvalidate(h) \/ CacheInvalidateFail(h)
  \/ AliasSelect(h) \/ Insert(h) \/ Refresh(h)
  \/ ResolveAlias(h) \/ InfoAlias(h)
  \/ Increment(h) \/ Deactivate(h) \/ Delete(h) \/ Cleanup(h) \/ Update(h)

StartAny(h, w) ==
  \/ StartCreate(h, w) \/ StartResolve(h, w) \/ StartInfo(h, w)
  \/ StartDeactivate(h, w) \/ StartDelete(h, w) \/ StartGet(h, w)
  \/ StartCleanup(h, w) \/ StartUpdate(h, w) \/ StartIncrement(h, w)

\* Concurrent handlers, every operation; creates name their alias.
Next ==
  \/ \E h \in Handlers : StartAny(h, Load(MaxRequests, FALSE, Aliases, {0, 1})) \/ Step(h)
  \/ Tick
  \/ Evict

Init == InitSeeded /\ expiry_days = 0

Spec == Init /\ [][Next]_vars

\* One handler, one request at a time, every operation; creates name their
\* alias and leave the expiry to the setting.
NextSeq ==
  \/ StartAny("h1", Load(MaxSeqRequests, TRUE, Aliases, {0}))
  \/ Step("h1")
  \/ Tick
  \/ Evict

InitSeq == InitSeeded /\ expiry_days = 1

SpecSeq == InitSeq /\ [][NextSeq]_vars

Columns == {"original_url", "is_active", "click_count"}

StoreError(h) ==
  \/ SelectFail(h) \/ AliasSelectFail(h) \/ ResolveAliasFail(h) \/ InfoAliasFail(h)
  \/ InsertFail(h) \/ RefreshFail(h) \/ UpdateFail(h)
  \/ IncrementFail(h) \/ DeactivateFail(h) \/ DeleteFail(h) \/ CleanupFail(h)

\* One handler, one request at a time, every operation, over a store and a
\* cache either of which may fail at any call; update_url is given any of
\* three columns to write.
NextFault ==
  \/ StartAny("h1", Writing(Recorded(Load(MaxFaultRequests, TRUE, Aliases, {0})),
                            Columns))
  \/ Step("h1")
  \/ StoreError("h1")
  \/ Tick
  \/ Evict

InitFault == InitSeeded /\ expiry_days = 0

SpecFault == InitFault /\ [][NextFault]_vars


\* The rows earlier creates without alias have inserted: the first drew "a",
\* the second drew "a" a hundred times and then, a character longer, "aa".
RandomRow(id, code) ==
  [id |-> id, original_url |-> normalize_url(UrlA), short_code |-> code,
   created_at |-> DateTime(0), expires_at |-> None, is_active |-> TRUE,
   click_count |-> 0, last_accessed_at |-> None, custom_alias |-> NoCode]

FirstCode == [i \in 1..short_url_length |-> SAFE_CHARS[1]]

SecondCode == [i \in 1..(short_url_length + 1) |-> SAFE_CHARS[1]]

CreateStep(h) ==
  \/ CacheGet(h) \/ CacheGetFail(h) \/ Select(h)
  \/ CacheFill(h) \/ CacheFillFail(h)
  \/ AliasSelect(h) \/ Insert(h) \/ Refresh(h)

Creates(limit) == Load(limit, FALSE, Aliases \cup {NoCode, FirstCode}, {0})

\* Concurrent handlers that create, with and without alias, on an empty table
\* or on a table that holds the row of one earlier create without alias.
NextAlloc ==
  \E h \in Handlers : StartCreate(h, Creates(MaxRequests)) \/ CreateStep(h)

InitAlloc ==
  /\ Idle
  /\ expiry_days = 0
  /\ \/ store = {} /\ nextId = 1
     \/ store = {RandomRow(1, FirstCode)} /\ nextId = 2

SpecAlloc == InitAlloc /\ [][NextAlloc]_vars

\* One handler that creates, one request after the other, on a table that
\* earlier creates have filled.
NextGen == StartCreate("h1", Creates(MaxSeqRequests)) \/ CreateStep("h1")

InitGen ==
  /\ Idle
  /\ expiry_days = 0
  /\ \/ store = {} /\ nextId = 1
     \/ store = {RandomRow(1, FirstCode)} /\ nextId = 2
     \/ store = {RandomRow(1, FirstCode), RandomRow(2, SecondCode)} /\ nextId = 3

SpecGen == InitGen /\ [][NextGen]_vars

\* A row of the table after earlier creates, deactivations and cleanups.
OldRow(id, code, expires, active) ==
  [id |-> id, original_url |-> normalize_url(UrlA), short_code |-> code,
   created_at |-> DateTime(0), expires_at |-> expires, is_active |-> active,
   click_count |-> 0, last_accessed_at |-> None, custom_alias |-> NoCode]

\* One handler running cleanup_expired_urls again and again as time passes,
\* on a table of one or two rows of any expiry and activity.
NextCleanup ==
  \/ StartCleanup("h1", Timed(Load(MaxCleanupRequests, TRUE, Aliases, {0})))
  \/ Cleanup("h1")
  \/ Tick

InitCleanup ==
  /\ Idle
  /\ expiry_days = 0
  /\ nextId = 3
  /\ \E e1, e2 \in {None, DateTime(0), DateTime(1)}, a1, a2 \in BOOLEAN :
       \/ store = {OldRow(1, FirstCode, e1, a1)}
       \/ store = {OldRow(1, FirstCode, e1, a1), OldRow(2, SecondCode, e2, a2)}

SpecCleanup == InitCleanup /\ [][NextCleanup]_vars

AllTargets == {UrlA, UrlBad, UrlExample, UrlLong, UrlLocal, UrlScript}

ResolveStep(h) ==
  \/ ResolveAlias(h) \/ Increment(h) \/ CacheInvalidate(h) \/ CacheInvalidateFail(h)

\* One handler, one request at a time: creates of every kind of target, with
\* and without alias, and resolves.
NextTarget ==
  \/ StartCreate("h1", Aimed(Load(MaxTargetRequests, TRUE, Aliases \cup {NoCode}, {0}),
                             AllTargets))
  \/ StartResolve("h1", Load(MaxTargetRequests, TRUE, Aliases, {0}))
  \/ CreateStep("h1")
  \/ ResolveStep("h1")

InitTarget == InitEmpty /\ expiry_days = 0

SpecTarget == InitTarget /\ [][NextTarget]_vars

(***************************************************************************)
(* The utilities called on their own: the validator's normalize_url, and   *)
(* one ShortURLGenerator object with its is_valid_code, generate_random,   *)
(* generate_unique, generate_sequential, add_used_code and                 *)
(* remove_used_code.  These are synchronous functions; the loops of        *)
(* generate_unique and _int_to_base62 are shown one iteration per step,    *)
(* and no other call starts while one of them runs.                        *)
(***************************************************************************)
Rep(c, n) == [i \in 1..n |-> c]

\* Scheme prefix, host, port suffix, tail and leading blanks of the targets
\* handed to normalize_url.
Prefixes ==
  { HttpPrefix, HttpsPrefix, <<"H", "T", "T", "P", ":", "/", "/">>,
    <<"H", "t", "t", "p", "s", ":", "/", "/">>, <<>> }

HostNames == { <<"a", ".", "c">>, <<"A", ".", "c">> }

PortSuffixes ==
  { <<>>, <<":", "8", "0">>, <<":", "4", "4", "3">>, <<":", "8", "0", ":", "8", "0">>,
    <<":", "4", "4", "3", ":", "4", "4", "3">>, <<":", "8">> }

Tails == { <<>>, <<"/", "A">> }

Blanks == { <<>>, <<" ">> }

NormalizeInputs ==
  { b \o p \o h \o s \o t :
      b \in Blanks, p \in Prefixes, h \in HostNames, s \in PortSuffixes, t \in Tails }

\* "abc123", "XYZ789", "", "abc@123", codes of 50, 51 and 100 characters, and
\* every code of one letter, digit or sign.
CodeInputs ==
  { <<"a", "b", "c", "1", "2", "3">>, <<"X", "Y", "Z", "7", "8", "9">>, <<>>,
    <<"a", "b", "c", "@", "1", "2", "3">>,
    Rep("a", MaxCodeLen), Rep("a", MaxCodeLen + 1), Rep("a", 2 * MaxCodeLen) }
  \cup { <<c>> : c \in Range(LowerLetters) \cup Range(UpperLetters) \cup Range(Digits)
                          \cup {"@", "-", "_"} }

ConfiguredLengths == {1, MaxCodeLen}

\* The characters secrets.choice draws in this specification: two of
\* SAFE_CHARS for short codes, one for long codes.
UtilChars(length) ==
  IF length <= SmallLen THEN {SAFE_CHARS[i] : i \in 1..UtilAlphabetSize} ELSE Alphabet

UsableCodes == UNION {generate_random(UtilChars(n), n) : n \in 0..SmallLen}

\* A loop of a utility is running.
Running == util.f \in {"generate_unique", "generate_sequential"} /\ util.status = "running"

CallNormalize ==
  /\ ~Running
  /\ \E u \in NormalizeInputs :
       util' = [f |-> "normalize_url", arg |-> u, valid |-> is_valid_url(u),
                once |-> normalize_url(u), result |-> normalize_url(u), times |-> 1]
  /\ UNCHANGED <<store, nextId, cache, now, expiry_days, pc, req, loc, out, started,
                 clicked, hist, generator, dns>>

\* normalize_url applied to its own result.
NormalizeAgain ==
  /\ util.f = "normalize_url" /\ util.times = 1
  /\ util' = [util EXCEPT !.result = normalize_url(util.result), !.times = 2]
  /\ UNCHANGED <<store, nextId, cache, now, expiry_days, pc, req, loc, out, started,
                 clicked, hist, generator, dns>>

CallIsValidCode ==
  /\ ~Running
  /\ \E c \in CodeInputs :
       util' = [f |-> "is_valid_code", arg |-> c, ok |-> is_valid_code(c)]
  /\ UNCHANGED <<store, nextId, cache, now, expiry_days, pc, req, loc, out, started,
                 clicked, hist, generator, dns>>

CallGenerateRandom ==
  /\ ~Running
  /\ \E c \in generate_random(UtilChars(generator.length), generator.length) :
       util' = [f |-> "generate_random", length |-> generator.length, result |-> c,
                ok |-> is_valid_code(c)]
  /\ UNCHANGED <<store, nextId, cache, now, expiry_days, pc, req, loc, out, started,
                 clicked, hist, generator, dns>>

\* _generate_unique_short_code after a round without a free code:
\* self.short_url_generator.length += 1
Escalate ==
  /\ ~Running
  /\ generator.escalated < MaxEscalations
  /\ generator' = [generator EXCEPT !.length = @ + 1, !.escalated = @ + 1]
  /\ util' = [f |-> "escalate"]
  /\ UNCHANGED <<store, nextId, cache, now, expiry_days, pc, req, loc, out, started,
                 clicked, hist, dns>>

CallGenerateUnique ==
  /\ ~Running
  /\ Cardinality(generator.used_codes) <= MaxUsed
  /\ \E m \in {FewAttempts, MaxAttempts} :
       util' = [f |-> "generate_unique", max_attempts |-> m, attempt |-> 0,
                status |-> "running", result |-> <<>>]
  /\ UNCHANGED <<store, nextId, cache, now, expiry_days, pc, req, loc, out, started,
                 clicked, hist, generator, dns>>

\* A generator that hands a code out and keeps no note of it.
IssueUnnoted(code) == [generator EXCEPT !.issued = Append(@, code)]

\* A code the generator hands out enters used_codes.
Issue(code) ==
  [generator EXCEPT !.used_codes = @ \cup {code}, !.issued = Append(@, code)]

\* One iteration of the loop of generate_unique.
UniqueAttempt ==
  /\ util.f = "generate_unique" /\ util.status = "running"
  /\ util.attempt < util.max_attempts
  /\ \E code \in generate_random(UtilChars(generator.length), generator.length) :
       IF code \notin generator.used_codes
       THEN /\ generator' = Issue(code)
            /\ util' = [util EXCEPT !.status = "returned", !.result = code]
       ELSE /\ generator' = generator
            /\ util' = [util EXCEPT !.attempt = @ + 1]
  /\ UNCHANGED <<store, nextId, cache, now, expiry_days, pc, req, loc, out, started,
                 clicked, hist, dns>>

\* The loop of generate_unique ran out: raise Exception.
UniqueRaise ==
  /\ util.f = "generate_unique" /\ util.status = "running"
  /\ util.attempt >= util.max_attempts
  /\ util' = [util EXCEPT !.status = "raised"]
  /\ UNCHANGED <<store, nextId, cache, now, expiry_days, pc, req, loc, out, started,
                 clicked, hist, generator, dns>>

AddUsedCode ==
  /\ ~Running
  /\ Cardinality(generator.used_codes) < MaxUsed
  /\ \E c \in UsableCodes :
       /\ generator' = [generator EXCEPT !.used_codes = @ \cup {c}]
       /\ util' = [f |-> "add_used_code", arg |-> c]
  /\ UNCHANGED <<store, nextId, cache, now, expiry_days, pc, req, loc, out, started,
                 clicked, hist, dns>>

\* remove_used_code; a code given back is no longer counted as issued.
RemoveUsedCode ==
  /\ ~Running
  /\ \E c \in UsableCodes :
       /\ generator' = [generator EXCEPT
                          !.used_codes = @ \ {c},
                          !.issued = SelectSeq(@, LAMBDA x : x # c)]
       /\ util' = [f |-> "remove_used_code", arg |-> c]
  /\ UNCHANGED <<store, nextId, cache, now, expiry_days, pc, req, loc, out, started,
                 clicked, hist, dns>>

\* The counters handed to generate_sequential: the small ones, negative ones
\* included, and those around the first code of three characters.
Counters ==
  ((-NegativeCounters)..MaxCounter) \cup {Len(SAFE_CHARS) ^ 2 + d : d \in -1..1}

\* generate_sequential(counter): _int_to_base62 up to its loop.
CallGenerateSequential ==
  /\ ~Running
  /\ \E n \in Counters :
       util' = IF n = 0
               THEN [f |-> "generate_sequential", counter |-> n, num |-> n,
                     digits |-> <<>>, status |-> "returned", result |-> <<SAFE_CHARS[1]>>]
               ELSE [f |-> "generate_sequential", counter |-> n, num |-> n,
                     digits |-> <<>>, status |-> "running", result |-> <<>>]
  /\ UNCHANGED <<store, nextId, cache, now, expiry_days, pc, req, loc, out, started,
                 clicked, hist, generator, dns>>

\* One iteration of "while num": num % base and num // base round towards
\* minus infinity.
Base62Step ==
  /\ util.f = "generate_sequential" /\ util.status = "running"
  /\ util.num # 0
  /\ Len(util.digits) < MaxDigits
  /\ util' = [util EXCEPT
                !.digits = Append(@, SAFE_CHARS[(util.num % Len(SAFE_CHARS)) + 1]),
                !.num = util.num \div Len(SAFE_CHARS)]
  /\ UNCHANGED <<store, nextId, cache, now, expiry_days, pc, req, loc, out, started,
                 clicked, hist, generator, dns>>

Base62Return ==
  /\ util.f = "generate_sequential" /\ util.status = "running"
  /\ util.num = 0
  /\ util' = [util EXCEPT !.status = "returned", !.result = Reversed(util.digits)]
  /\ UNCHANGED <<store, nextId, cache, now, expiry_days, pc, req, loc, out, started,
                 clicked, hist, generator, dns>>

\* The functions that read no field of the generator.
NextUtil ==
  \/ CallNormalize \/ NormalizeAgain
  \/ CallIsValidCode
  \/ CallGenerateSequential \/ Base62Step \/ Base62Return

InitUtil == InitEmpty /\ expiry_days = 0

SpecUtil == InitUtil /\ [][NextUtil]_vars

\* The methods that read or write the length and the used_codes of one
\* generator object.
NextCodes ==
  \/ CallGenerateRandom \/ Escalate
  \/ CallGenerateUnique \/ UniqueAttempt \/ UniqueRaise
  \/ AddUsedCode \/ RemoveUsedCode

InitCodes ==
  /\ Quiet
  /\ store = {} /\ nextId = 1 /\ expiry_days = 0
  /\ dns = [h \in Hosts |-> NoAddress]
  /\ \E n \in ConfiguredLengths : generator = ShortURLGenerator(n)

SpecCodes == InitCodes /\ [][NextCodes]_vars

(***************************************************************************)
(* Creates of targets at private and public addresses, under a name        *)
(* service that resolves "a.co" to any one of a few addresses or not at    *)
(* all.                                                                    *)
(***************************************************************************)
NameTargets ==
  {
    \* http://10.0.0.1
    <<"h", "t", "t", "p", ":", "/", "/", "1", "0", ".", "0", ".", "0", ".", "1">>,
    \* http://172.16.0.1:8
    <<"h", "t", "t", "p", ":", "/", "/", "1", "7", "2", ".", "1", "6", ".", "0", ".",
      "1", ":", "8">>,
    \* http://192.168.0.1/
    <<"h", "t", "t", "p", ":", "/", "/", "1", "9", "2", ".", "1", "6", "8", ".", "0",
      ".", "1", "/">>,
    \* http://169.254.0.1?a
    <<"h", "t", "t", "p", ":", "/", "/", "1", "6", "9", ".", "2", "5", "4", ".", "0",
      ".", "1", "?", "a">>,
    \* http://127.0.0.1/a
    <<"h", "t", "t", "p", ":", "/", "/", "1", "2", "7", ".", "0", ".", "0", ".", "1",
      "/", "a">>,
    \* http://127.1:8/a
    <<"h", "t", "t", "p", ":", "/", "/", "1", "2", "7", ".", "1", ":", "8", "/", "a">>,
    \* HTTP://10.0.0.1
    <<"H", "T", "T", "P", ":", "/", "/", "1", "0", ".", "0", ".", "0", ".", "1">>,
    \* http://a@10.0.0.1
    <<"h", "t", "t", "p", ":", "/", "/", "a", "@", "1", "0", ".", "0", ".", "0", ".",
      "1">>,
    \* http://172.15.0.1
    <<"h", "t", "t", "p", ":", "/", "/", "1", "7", "2", ".", "1", "5", ".", "0", ".",
      "1">>,
    \* http://172.32.0.1
    <<"h", "t", "t", "p", ":", "/", "/", "1", "7", "2", ".", "3", "2", ".", "0", ".",
      "1">>,
    \* http://8.8.8.8
    <<"h", "t", "t", "p", ":", "/", "/", "8", ".", "8", ".", "8", ".", "8">>,
    \* https://a.co
    <<"h", "t", "t", "p", "s", ":", "/", "/", "a", ".", "c", "o">>,
    \* http://A.co:8/a
    <<"h", "t", "t", "p", ":", "/", "/", "A", ".", "c", "o", ":", "8", "/", "a">>,
    \* https://a.co?a
    <<"h", "t", "t", "p", "s", ":", "/", "/", "a", ".", "c", "o", "?", "a">>
  }

\* What the name service may answer for a name: nothing, or an address in or
\* next to one of the private ranges.
Addresses ==
  { NoAddress, <<8, 8, 8, 8>>, <<10, 0, 0, 1>>, <<172, 31, 255, 255>>, <<172, 32, 0, 1>>,
    <<192, 168, 1, 1>>, <<127, 0, 0, 1>>, <<169, 254, 169, 254>> }

NextNames ==
  \/ StartCreate("h1", Aimed(Load(MaxNameRequests, TRUE, Aliases \cup {NoCode}, {0}),
                             NameTargets))
  \/ CreateStep("h1")

InitNames ==
  /\ Quiet
  /\ store = {} /\ nextId = 1 /\ expiry_days = 0
  /\ generator = ShortURLGenerator(short_url_length)
  /\ dns \in [Hosts -> Addresses]

SpecNames == InitNames /\ [][NextNames]_vars

(***************************************************************************)
(* Properties.                                                             *)
(***************************************************************************)
Done(h) == pc[h] = "done"

CreateEnded(h) == Done(h) /\ req[h].op = "create"

\* Two creates of one alias that both tried their insert: both passed the
\* availability check before either inserted.
Raced(g, h) ==
  /\ g # h
  /\ CreateEnded(g) /\ CreateEnded(h)
  /\ req[g].alias # NoCode /\ req[g].alias = req[h].alias
  /\ loc[g].inserts = 1 /\ loc[h].inserts = 1

Won(h) ==
  /\ out[h].kind = "created"
  /\ out[h].rec # {}
  /\ StoreByAlias(req[h].alias) = out[h].rec

\* C1: of two concurrent creates of one alias that both pass the availability
\* check, exactly one succeeds and its record is the one the table holds;
\* the other fails with "already exists" naming the alias; the table never
\* holds two rows with the alias.
AliasRaceHasOneWinner ==
  /\ \A a \in Aliases : Cardinality(StoreByAlias(a)) <= 1
  /\ \A g, h \in Handlers :
       Raced(g, h) =>
         \/ Won(g) /\ out[h] = Exists(req[h].alias)
         \/ Won(h) /\ out[g] = Exists(req[g].alias)

\* The alias is the short_code of a row that was created without alias.
TakenAsCode(alias) ==
  \E r \in store : r.short_code = alias /\ r.custom_alias # alias

\* C1 (amended): of two concurrent creates of one alias that both pass the
\* availability check, exactly one succeeds and its record is the one the
\* table holds, the other fails with "already exists" naming the alias --
\* unless the alias is already the short_code of a record created without
\* alias, in which case both fail with "already exists" naming the alias;
\* the table never holds two rows with the alias.
AliasRaceOneWinnerUnlessCode ==
  /\ \A a \in Aliases \cup {FirstCode} : Cardinality(StoreByAlias(a)) <= 1
  /\ \A g, h \in Handlers :
       Raced(g, h) =>
         \/ Won(g) /\ out[h] = Exists(req[h].alias)
         \/ Won(h) /\ out[g] = Exists(req[g].alias)
         \/ /\ TakenAsCode(req[g].alias)
            /\ StoreByAlias(req[g].alias) = {}
            /\ out[g] = Exists(req[g].alias) /\ out[h] = Exists(req[h].alias)

AliasRaceSeen == \E g, h \in Handlers : Raced(g, h) /\ Won(g)

\* C2: a create without alias whose insert loses on the unique index tries
\* another candidate; it never ends with the conflict.
RandomRaceLoserRetries ==
  \A h \in Handlers :
    (CreateEnded(h) /\ req[h].alias = NoCode) => out[h].kind # "ShortURLExistsError"

\* C3: the count of a row is the number of increment calls on its code that
\* have been carried out, however the calls interleave.
EveryClickCounted == \A r \in store : r.click_count = clicked[r.id]

\* Two resolutions that both read the row before either incremented it and
\* have both incremented it.
ClicksRaced ==
  \E g, h \in Handlers :
    /\ g # h
    /\ pc[g] = "cache_delete" /\ pc[h] = "cache_delete"
    /\ req[g].op = "resolve" /\ req[h].op = "resolve"
    /\ loc[g].key = loc[h].key
    /\ \A o \in loc[g].rec \cup loc[h].rec : o.click_count = 0
    /\ \E r \in StoreByCode(loc[g].key) : r.click_count = 2

SameAnswer(objs, rows) ==
  /\ (objs = {}) = (rows = {})
  /\ \A o \in objs, r \in rows :
       o.original_url = r.original_url /\ o.is_active = r.is_active

\* C4: what get_url_by_short_code answers from the cache is what the table
\* holds for the code at that moment: a row is there, with the same
\* original_url and is_active.
CacheAnswersAsStore ==
  \A h \in Handlers : loc[h].hit => SameAnswer(loc[h].served, loc[h].truth)

\* The previous request of the handler changed or removed a row.
Mutated(h) ==
  LET p == hist[h] IN
    \/ p.req.op = "deactivate" /\ p.out.kind = "True" /\ \E r \in p.pre : r.is_active
    \/ p.req.op = "delete" /\ p.out.kind = "True" /\ p.pre # {}
    \/ /\ p.req.op = "update" /\ p.out.kind = "record" /\ p.out.rec # {}
       /\ \E r \in p.pre : r.original_url # p.req.url

ReadAfterMutation(h) ==
  /\ Done(h) /\ req[h].op = "get" /\ out[h].kind = "record"
  /\ Mutated(h)
  /\ \E r \in hist[h].pre : r.short_code = req[h].code

Unchanged(o, r) ==
  o.id = r.id /\ o.original_url = r.original_url /\ o.is_active = r.is_active

\* C5: the get_url_by_short_code that follows a successful update, deactivate
\* or delete of the code does not return the record as it was before.
NoStaleReadAfterMutation ==
  \A h \in Handlers :
    ReadAfterMutation(h) =>
      \A o \in out[h].rec, r \in hist[h].pre : ~Unchanged(o, r)

ReadAfterCreate(h) ==
  /\ Done(h) /\ req[h].op = "get"
  /\ hist[h].req.op = "create" /\ hist[h].out.kind = "created"
  /\ req[h].code = hist[h].out.code

\* C6: the get_url_by_short_code that follows a successful create returns a
\* record equal in every field to the one create returned.
ReadEqualsCreated ==
  \A h \in Handlers :
    ReadAfterCreate(h) => out[h].kind = "record" /\ out[h].rec = hist[h].out.rec

ResolveEnded(h) == Done(h) /\ req[h].op = "resolve" /\ loc[h].pre # {}

\* C7: resolving a code whose row is inactive ends with URLNotFoundError,
\* expired or not.
InactiveIsNotFound ==
  \A h \in Handlers :
    (ResolveEnded(h) /\ \A r \in loc[h].pre : ~r.is_active)
      => out[h].kind = "URLNotFoundError"

PastExpiry(r, clock) == r.expires_at.kind = "datetime" /\ clock > r.expires_at.t

\* C8: resolving a code whose row is active and past expires_at ends with
\* URLExpiredError.
ExpiredIsExpired ==
  \A h \in Handlers :
    (ResolveEnded(h) /\ \A r \in loc[h].pre : r.is_active /\ PastExpiry(r, loc[h].t0))
      => out[h].kind = "URLExpiredError"

\* C9: a create without alias checks at most MaxAttempts candidates of the
\* configured length, then at most MaxAttempts of one character more; when
\* every one of them exists it ends with ShortURLGenerationError after
\* exactly 2 * MaxAttempts checks, without an insert.
GenerationBounded ==
  \A h \in Handlers :
    (req[h].op = "create" /\ req[h].alias = NoCode) =>
      /\ loc[h].checks <= 2 * MaxAttempts
      /\ loc[h].round = 1 =>
           loc[h].length = short_url_length /\ loc[h].checks <= MaxAttempts
      /\ loc[h].round = 2 =>
           loc[h].length = short_url_length + 1 /\ loc[h].checks > MaxAttempts
      /\ loc[h].inserts <= 1
      /\ out[h].kind = "ShortURLGenerationError" =>
           /\ Done(h)
           /\ loc[h].round = 2
           /\ loc[h].checks = 2 * MaxAttempts
           /\ loc[h].inserts = 0

GenerationExhausted ==
  \E h \in Handlers :
    /\ req[h].op = "create" /\ req[h].alias = NoCode
    /\ out[h].kind = "ShortURLGenerationError"
    /\ loc[h].checks = 2 * MaxAttempts

\* C10: the availability check of a create whose alias a row holds ends the
\* request with "already exists" naming the alias, with no candidate checked
\* and no insert tried, and leaves the table and the cache as they were.
TakenAliasFailsAtOnce ==
  [][\A h \in Handlers :
       (pc[h] = "alias_select" /\ pc'[h] # "alias_select"
          /\ StoreByAlias(req[h].alias) # {})
         => /\ pc'[h] = "done"
            /\ out'[h] = Exists(req[h].alias)
            /\ loc'[h].checks = 0 /\ loc'[h].inserts = 0
            /\ store' = store /\ nextId' = nextId /\ cache' = cache]_vars

\* The second create of an alias, after the first succeeded.
SecondCreateRefused ==
  \E h \in Handlers :
    /\ CreateEnded(h) /\ req[h].alias # NoCode
    /\ hist[h].req.op = "create" /\ hist[h].req.alias = req[h].alias
    /\ hist[h].out.kind = "created"
    /\ out[h] = Exists(req[h].alias)
    /\ loc[h].inserts = 0

(***************************************************************************)
(* Store and cache errors.                                                 *)
(***************************************************************************)
\* A resolve that has ended after its click-count increment failed.
ResolveLostClick(h) ==
  Done(h) /\ req[h].op = "resolve" /\ loc[h].fault = "write"

\* The rows the request's key named, as code or as alias, when it arrived.
Named(h) ==
  {r \in loc[h].before : r.short_code = req[h].code \/ r.custom_alias = req[h].code}

\* C11: a resolve whose click-count increment fails with a store error still
\* returns the target URL, which is the row's original_url when the record
\* was read from the table; the count is left as it was.
FailedIncrementStillResolves ==
  \A h \in Handlers :
    ResolveLostClick(h) =>
      /\ out[h].kind = "url"
      /\ ~loc[h].hit => \E r \in Named(h) : out[h].url = r.original_url
      /\ store = loc[h].before

FailedIncrementSeen ==
  \E h \in Handlers :
    /\ ResolveLostClick(h)
    /\ \E r \in Named(h) : r.is_active /\ is_expired(r, now) = "false"
    /\ out[h].url = UrlA

\* The request met a cache error and no store error, and has ended.
CacheFailed(h) == Done(h) /\ loc[h].fault = "cache"

\* The rows of the table under the request's code when it arrived.
Coded(h) == {r \in loc[h].before : r.short_code = req[h].code}

\* The table the request found, after one UPDATE of the rows under its code.
Counted(h) ==
  \E t \in 0..MaxTime :
    store = {IF r.short_code = req[h].code
             THEN [r EXCEPT !.click_count = @ + 1, !.last_accessed_at = DateTime(t)]
             ELSE r : r \in loc[h].before}

Deactivated(h) ==
  store = {IF r.short_code = req[h].code THEN [r EXCEPT !.is_active = FALSE] ELSE r :
             r \in loc[h].before}

Deleted(h) == store = loc[h].before \ Coded(h)

Updated(h) ==
  store = {IF r.id = req[h].id THEN [r EXCEPT ![req[h].column] = UpdateValue(req[h])]
           ELSE r : r \in loc[h].before}

\* What the operation returns and does to the table when the repository has
\* no cache: stated from the table the request found.
AsWithoutCache(h) ==
  LET o == out[h]
      r == req[h]
  IN  CASE r.op = "get" -> o.kind = "record" /\ o.rec = Coded(h) /\ store = loc[h].before
        [] r.op = "increment" -> o = Bool(Coded(h) # {}) /\ Counted(h)
        [] r.op = "update" ->
             /\ o.kind = "record" /\ o.rec # {} /\ o.rec = StoreById(r.id)
             /\ Updated(h)
        [] r.op = "create" ->
             /\ o.kind = "created" /\ o.code = r.alias
             /\ o.rec = StoreByCode(r.alias) /\ Cardinality(o.rec) = 1
             /\ o.rec \cap loc[h].before = {}
             /\ store = loc[h].before \cup o.rec
        [] r.op = "deactivate" ->
             \/ o.kind = "URLNotFoundError" /\ Coded(h) = {} /\ store = loc[h].before
             \/ o = Bool(Coded(h) # {}) /\ Deactivated(h)
        [] r.op = "delete" ->
             \/ o.kind = "URLNotFoundError" /\ Coded(h) = {} /\ store = loc[h].before
             \/ o = Bool(Coded(h) # {}) /\ Deleted(h)
        [] r.op = "resolve" ->
             \/ /\ o.kind = "url" /\ Counted(h)
                /\ ~loc[h].hit => \E x \in Named(h) : x.is_active /\ o.url = x.original_url
             \/ /\ o.kind = "URLNotFoundError" /\ store = loc[h].before
                /\ \A x \in Named(h) : ~x.is_active
             \/ /\ o.kind = "URLExpiredError" /\ store = loc[h].before
                /\ \E x \in Named(h) : x.is_active /\ PastExpiry(x, now)
        [] r.op = "info" ->
             /\ store = loc[h].before
             /\ \/ o.kind = "URLNotFoundError" /\ Named(h) = {}
                \/ o.kind = "info" /\ o.rec = Named(h)
        [] OTHER -> FALSE

\* C12: a repository operation one of whose cache calls (get, set, delete)
\* failed returns what it returns, and leaves the table as it leaves it, when
\* there is no cache; the cache error is never the operation's result.
CacheErrorIsNoCache ==
  \A h \in Handlers : CacheFailed(h) => AsWithoutCache(h)

CacheErrorSeen ==
  \E h \in Handlers :
    /\ CacheFailed(h)
    /\ req[h].op = "increment" /\ out[h].kind = "True"
    /\ hist[h].req.op = "get" /\ hist[h].out.rec # {}

\* A create, update, deactivate or delete that has ended after its statement
\* on the table failed.
WriteFailed(h) ==
  /\ Done(h) /\ loc[h].fault = "write"
  /\ req[h].op \in {"create", "update", "deactivate", "delete"}

\* What the repository's writes return when there is no such row: None from
\* update_url, False from deactivate_url and delete_url.
NoSuchRecord(o) == o = [Result("record") EXCEPT !.rec = {}] \/ o = Bool(FALSE)

\* C13: a create, update, deactivate or delete whose statement on the table
\* failed ends with a store error (DatabaseError), never with the result it
\* gives when there is no such record.
StoreErrorIsDistinct ==
  \A h \in Handlers :
    WriteFailed(h) => out[h].kind = "DatabaseError" /\ ~NoSuchRecord(out[h])

(***************************************************************************)
(* Validation of the target.                                               *)
(***************************************************************************)
\* Handler h, and no other, takes a request in this step.
Arrives(h) ==
  /\ started' = started + 1
  /\ pc'[h] # "idle"
  /\ \A g \in Handlers \ {h} :
       pc'[g] = pc[g] /\ req'[g] = req[g] /\ loc'[g] = loc[g] /\ out'[g] = out[g]

\* Targets the validator refuses: no scheme, too long, a private address, a
\* blocked scheme.
Refused == {UrlBad, UrlExample, UrlLong, UrlLocal, UrlScript}

\* C14: a create whose target fails validation ends in the step in which it
\* arrives, before any repository, store or cache call: table, id sequence,
\* cache and click counts are unchanged, no candidate was drawn or checked,
\* no insert tried, the generator's length is as configured.
InvalidTargetTouchesNothing ==
  [][\A h \in Handlers :
       (Arrives(h) /\ req'[h].op = "create" /\ req'[h].url \in Refused) =>
         /\ pc'[h] = "done"
         /\ out'[h].kind \in {"InvalidURLError", "URLTooLongError"}
         /\ UNCHANGED <<store, nextId, cache, clicked>>
         /\ loc'[h].checks = 0 /\ loc'[h].inserts = 0
         /\ loc'[h].cand = NoCode /\ loc'[h].length = short_url_length]_vars

InvalidTargetRefused ==
  \E h \in Handlers :
    /\ Done(h) /\ req[h].op = "create" /\ req[h].url = UrlBad
    /\ out[h].kind = "InvalidURLError"
    /\ hist[h].out.kind = "created" /\ store # {}

\* Nothing but its length is wrong with the target.
OnlyTooLong(url) ==
  LET parsed == UrlParse(url)
  IN  /\ Len(url) > max_url_length
      /\ _check_scheme(parsed.scheme) /\ _check_domain(parsed.netloc)
      /\ ~_is_blacklisted(parsed.netloc) /\ ~_points_to_private_ip(parsed.netloc)

\* C15: a create whose target is well-formed and allowed but longer than
\* max_url_length ends with URLTooLongError, not with InvalidURLError.
TooLongIsTooLong ==
  \A h \in Handlers :
    (Done(h) /\ req[h].op = "create" /\ OnlyTooLong(req[h].url)) =>
      out[h].kind = "URLTooLongError"

\* A create of the target "example.com" has ended.
SchemelessCreated(h) == Done(h) /\ req[h].op = "create" /\ req[h].url = UrlExample

\* C16: a create of the target "example.com" succeeds and the row it stores
\* has original_url "https://example.com"; the resolve of the new code that
\* follows returns "https://example.com" and the row's click_count is 1.
SchemelessTargetGetsHttps ==
  \A h \in Handlers :
    /\ SchemelessCreated(h) =>
         /\ out[h].kind = "created"
         /\ \A r \in out[h].rec : r.original_url = HttpsPrefix \o UrlExample /\ r \in store
    /\ ( /\ Done(h) /\ req[h].op = "resolve"
         /\ hist[h].req.op = "create" /\ hist[h].req.url = UrlExample
         /\ req[h].code = hist[h].req.alias ) =>
         /\ out[h].kind = "url" /\ out[h].url = HttpsPrefix \o UrlExample
         /\ \A r \in StoreByCode(req[h].code) : r.click_count = 1

(***************************************************************************)
(* Deactivation and deletion.                                              *)
(***************************************************************************)
\* The rows under the request's code when it arrived.
Found(h) == {r \in loc[h].pre : r.short_code = req[h].code}

\* A deactivate or delete of a code with no row, or with an inactive row, has
\* ended, its lookup answered by the table.
RetiredAgain(h) ==
  /\ Done(h) /\ req[h].op \in {"deactivate", "delete"}
  /\ ~loc[h].hit /\ loc[h].fault \in {"off", "none"}
  /\ \A r \in Found(h) : ~r.is_active

\* C17: the service's deactivate and delete of a code whose row is absent or
\* already inactive end with URLNotFoundError and leave the rows of the code
\* as they were.
RetiredIsNotFound ==
  \A h \in Handlers :
    RetiredAgain(h) =>
      out[h].kind = "URLNotFoundError" /\ StoreByCode(req[h].code) = Found(h)

\* A row of the table is gone after the step.
Removed(r) == \A x \in store' : x.id # r.id

\* Handler h carries out delete_url's DELETE on the code in this step.
Deletes(h, code) ==
  pc[h] = "delete_rows" /\ pc'[h] = "cache_delete" /\ loc[h].key = code

\* A delete that found a row in the table has ended.
DeleteEnded(h) ==
  /\ Done(h) /\ req[h].op = "delete"
  /\ ~loc[h].hit /\ Found(h) # {}

\* A delete of a code that has a row, active or not, returned True and the
\* row is gone; when a delete has returned True the cache holds no entry for
\* the code.
DeleteLeavesNothing ==
  \A h \in Handlers :
    /\ DeleteEnded(h) => out[h].kind = "True" /\ StoreByCode(req[h].code) = {}
    /\ (Done(h) /\ req[h].op = "delete" /\ out[h].kind = "True") =>
         CacheLookup(req[h].code) = {}

\* C18: a row leaves the table only by delete_url's DELETE on its code; a
\* delete of a code that has a row, active or deactivated, returns True and
\* removes it; when a delete has returned True the cache holds no entry for
\* the code.
OnlyDeleteRemoves ==
  [][/\ \A r \in store : Removed(r) => \E h \in Handlers : Deletes(h, r.short_code)
     /\ DeleteLeavesNothing']_vars

Increments(h, code) ==
  pc[h] = "increment" /\ pc'[h] = "cache_delete" /\ loc[h].key = code

Eligible ==
  {r \in store : r.is_active /\ r.expires_at.kind = "datetime" /\ r.expires_at.t < now}

\* Handler h carries out cleanup_expired_urls' UPDATE in this step.
Cleans(h) == pc[h] = "cleanup_rows" /\ pc'[h] = "done"

\* A cleanup has ended that followed a cleanup, the clock not having moved
\* since the first arrived.
CleanedTwice(h) ==
  /\ Done(h) /\ req[h].op = "cleanup"
  /\ hist[h].req.op = "cleanup" /\ hist[h].out.kind = "count"
  /\ hist[h].t0 = now

SecondCleanupIdle ==
  \A h \in Handlers : CleanedTwice(h) => out[h] = Result("count") /\ Eligible = {}

\* C21: cleanup_expired_urls sets is_active to false on exactly the rows that
\* are active with an expires_at in the past, leaves every other row as it
\* is, and returns their number; a second run right after the first, no row
\* having expired in between, changes nothing and returns 0.
CleanupExactAndIdempotent ==
  [][/\ \A h \in Handlers :
          Cleans(h) =>
            /\ out'[h] = [Result("count") EXCEPT !.n = Cardinality(Eligible)]
            /\ store' = (store \ Eligible)
                           \cup {[r EXCEPT !.is_active = FALSE] : r \in Eligible}
            /\ CleanedTwice(h)' => store' = store
     /\ SecondCleanupIdle']_vars

CleanupFlippedThenNone ==
  \E h \in Handlers :
    /\ CleanedTwice(h) /\ out[h].n = 0
    /\ hist[h].out.n = 1
    /\ \E r \in store : r.is_active
    /\ \E r \in store : ~r.is_active /\ r.expires_at.kind = "datetime"

(***************************************************************************)
(* Uniqueness of codes and aliases.                                        *)
(***************************************************************************)
\* No two rows have one short_code, no two rows one non-null custom_alias.
CodesUnique ==
  \A r, x \in store :
    r # x =>
      /\ r.id # x.id
      /\ r.short_code # x.short_code
      /\ r.custom_alias # NoCode => r.custom_alias # x.custom_alias

\* Handler h's INSERT is refused in this step.
InsertRefused(h) ==
  /\ pc[h] = "insert" /\ pc'[h] = "done"
  /\ StoreByCode(loc[h].code) # {} \/ (req[h].alias # NoCode /\ StoreByAlias(req[h].alias) # {})

\* C22: under any interleaving of creates the table never holds two rows
\* with one short_code or with one non-null custom_alias, and a create whose
\* row would be the second inserts nothing and ends with an error.
CodesStayUnique ==
  [][/\ CodesUnique'
     /\ \A h \in Handlers :
          InsertRefused(h) =>
            /\ store' = store /\ nextId' = nextId
            /\ out'[h].kind = "ShortURLExistsError"]_vars

SecondRowRefused ==
  \E g, h \in Handlers :
    /\ g # h /\ CreateEnded(g) /\ CreateEnded(h)
    /\ req[g].alias = NoCode /\ req[h].alias = FirstCode
    /\ loc[g].inserts = 1 /\ loc[h].inserts = 1
    /\ out[h].kind = "ShortURLExistsError" /\ out[g].kind = "created"
    /\ Cardinality(store) = 1

\* C23: normalize_url is idempotent on every target is_valid_url accepts:
\* applied to its own result it returns that result, for targets with an
\* upper-case scheme and for targets with a repeated default-port suffix too.
NormalizeIdempotent ==
  util.f = "normalize_url" /\ util.valid /\ util.times = 2 => util.result = util.once

Letters == Range(LowerLetters) \cup Range(UpperLetters)

\* The configured alphabet as the text gives it: letters and digits without
\* i, l, 1, L, o, 0 and O.
Unambiguous == (Letters \cup Range(Digits)) \ {"i", "l", "1", "L", "o", "0", "O"}

\* C24: generate_random returns a code as long as the length the generator
\* is configured with, the length reached by one escalation included, and
\* is_valid_code is true of the code.
RandomCodeValid ==
  util.f = "generate_random" => Len(util.result) = util.length /\ util.ok

AlnumCodesValid ==
  util.f = "is_valid_code" =>
    /\ ( /\ util.arg # <<>>
         /\ Len(util.arg) <= 50
         /\ \A i \in DOMAIN util.arg : IsAlnum(util.arg[i]) ) => util.ok
    /\ util.arg = <<>> => ~util.ok
    /\ (\E i \in DOMAIN util.arg : util.arg[i] = "@") => ~util.ok
    /\ Len(util.arg) = 100 => ~util.ok

\* generate_unique is at the head of its loop.
UniqueRunning == util.f = "generate_unique" /\ util.status = "running"

NoDuplicates(codes) ==
  \A i, j \in DOMAIN codes : i # j => codes[i] # codes[j]

\* C27: the codes generate_unique returns on one generator are pairwise
\* distinct: the code returned was not in used_codes and is in it on return,
\* and a call whose max_attempts candidates were all used ends with the
\* exception, used_codes as they were, instead of returning a code.
UniqueCodesDistinct ==
  [][/\ UniqueRunning /\ util'.status = "returned" =>
          /\ util.attempt < util.max_attempts
          /\ util'.result \notin generator.used_codes
          /\ generator'.used_codes = generator.used_codes \cup {util'.result}
     /\ UniqueRunning /\ util.attempt >= util.max_attempts =>
          util'.status = "raised" /\ generator' = generator
     /\ NoDuplicates(generator'.issued)]_vars

UniqueExhausted ==
  /\ util.f = "generate_unique" /\ util.status = "raised"
  /\ util.attempt = MaxAttempts
  /\ Len(generator.issued) = 2
  /\ generator.length = 1

Abs(n) == IF n < 0 THEN -n ELSE n

\* The loop of _int_to_base62 goes round once in this step.
Base62Loops ==
  /\ util.f = "generate_sequential" /\ util.status = "running"
  /\ util'.f = "generate_sequential" /\ util'.status = "running"
  /\ util' # util

\* C28: generate_sequential gives distinct codes to distinct non-negative
\* counters (the code of a counter reads back as that counter), each of
\* them a valid code, and it terminates for every integer counter: every
\* round of its loop brings the number left to convert nearer to zero.
SequentialCodesDistinct ==
  [][/\ Base62Loops => Abs(util'.num) < Abs(util.num)
     /\ ( /\ util'.f = "generate_sequential" /\ util'.status = "returned"
          /\ util'.counter >= 0 ) =>
          /\ is_valid_code(util'.result)
          /\ _base62_to_int(util'.result) = util'.counter]_vars

\* The host of a target: the text between "//" and the next "/", "?" or "#",
\* without user information and without port.
HostOf(url) ==
  LET netloc == UrlParse(url).netloc
      at     == {i \in DOMAIN netloc : netloc[i] = "@"}
      rest   == IF at = {} THEN netloc
                ELSE SubSeq(netloc, Min(at) + 1, Len(netloc))
  IN  BeforeColon(rest)

\* 10.0.0.0/8, 172.16.0.0/12, 192.168.0.0/16, 127.0.0.0/8, 169.254.0.0/16:
\* first two octets of the network, and length of the prefix.
PrivateNets ==
  { <<10, 0, 8>>, <<172, 16, 12>>, <<192, 168, 16>>, <<127, 0, 8>>, <<169, 254, 16>> }

InNet(ip, net) ==
  (ip[1] * 256 + ip[2]) \div (2 ^ (16 - net[3]))
    = (net[1] * 256 + net[2]) \div (2 ^ (16 - net[3]))

\* The host of the target is, or resolves to, an address of a private,
\* loopback or link-local network.
AtPrivateAddress(url) ==
  LET ip == GetHostByName(HostOf(url))
  IN  ip # NoAddress /\ \E net \in PrivateNets : InNet(ip, net)

NamedPort ==
  <<"h", "t", "t", "p", ":", "/", "/", "A", ".", "c", "o", ":", "8", "/", "a">>

CacheHit(h) ==
  /\ pc[h] = "cache_get"
  /\ <<pc'[h], loc'[h], out'[h]>> # <<pc[h], loc[h], out[h]>>
  /\ CacheLookup(loc[h].key) # {}
  /\ loc'[h].hit

\* C30: a get_by_code that finds a cache entry for the code returns the
\* cached record in that very step: it neither goes on to the SELECT nor to
\* the cache fill, and table, id sequence and cache are left as they were.
HitTouchesNothing ==
  [][\A h \in Handlers :
       CacheHit(h) =>
         /\ pc'[h] \notin {"select", "cache_set"}
         /\ loc'[h].served = CacheLookup(loc[h].key)
         /\ (req[h].op = "get" =>
               pc'[h] = "done" /\ out'[h].kind = "record"
                 /\ out'[h].rec = CacheLookup(loc[h].key))
         /\ store' = store /\ nextId' = nextId /\ cache' = cache]_vars

GetServedFromCache ==
  \E h \in Handlers :
    /\ pc[h] = "done" /\ req[h].op = "get"
    /\ loc[h].hit /\ out[h].kind = "record"
    /\ out[h].rec # {} /\ out[h].rec = loc[h].served
    /\ CacheLookup(req[h].code) = out[h].rec

(***************************************************************************)
(* Lookups of codes the table does not hold, followed by creates.          *)
(***************************************************************************)
MaxMissRequests == 3

MissStep(h) ==
  \/ CacheGet(h) \/ Select(h) \/ CacheFill(h)
  \/ AliasSelect(h) \/ Insert(h) \/ Refresh(h)
  \/ Delete(h) \/ CacheInvalidate(h)

Lookups(limit) == Missing(Load(limit, TRUE, Aliases \cup {NoCode}, {0}))

\* One handler, one request at a time: get_url_by_short_code, creates with
\* and without alias, deletes; store and cache answer every call.
NextMiss ==
  \/ StartGet("h1", Lookups(MaxMissRequests))
  \/ StartCreate("h1", Lookups(MaxMissRequests))
  \/ StartDelete("h1", Lookups(MaxMissRequests))
  \/ MissStep("h1")
  \/ Tick
  \/ Evict

InitMiss == InitSeeded /\ expiry_days = 0

SpecMiss == InitMiss /\ [][NextMiss]_vars

\* A SELECT by short_code that finds no row.
SelectMisses(h) == pc[h] = "select" /\ pc'[h] # "select" /\ StoreByCode(loc[h].key) = {}

\* A get that follows a successful create of its code, the code having been
\* found absent by an earlier get.
ReadAfterMissAndCreate(h) == ReadAfterCreate(h) /\ req[h].code \in hist[h].absent

\* C31: a get_url_by_short_code whose SELECT finds no row writes nothing to
\* the cache and hands None to its caller (a get request ends with an absent
\* record); and the get that follows a successful create of a code an
\* earlier get found absent returns the created record, never None.
MissLeavesNoTrace ==
  [][\A h \in Handlers :
       /\ SelectMisses(h) =>
            /\ cache' = cache /\ store' = store
            /\ req[h].op = "get" => out'[h] = [Result("record") EXCEPT !.rec = {}]
       /\ ReadAfterMissAndCreate(h)' =>
            /\ out'[h].kind = "record" /\ out'[h].rec # {}
            /\ \A o \in out'[h].rec, r \in hist'[h].out.rec : to_dict(o) = to_dict(r)]_vars

CreatedFoundAfterMiss ==
  \E h \in Handlers :
    /\ ReadAfterMissAndCreate(h)
    /\ out[h].rec # {} /\ out[h].rec \subseteq {to_dict(r) : r \in store}
    /\ hist[h].req.alias = NoCode

(***************************************************************************)
(* Two handlers racing on one code, store and cache answering every call.  *)
(***************************************************************************)
MaxRaceRequests == 2

RaceStep(h) ==
  \/ CacheGet(h) \/ Select(h) \/ CacheFill(h) \/ CacheInvalidate(h)
  \/ AliasSelect(h) \/ Insert(h) \/ Refresh(h) \/ ResolveAlias(h)
  \/ Increment(h) \/ Deactivate(h) \/ Delete(h) \/ Update(h)

StartRace(h, w) ==
  \/ StartCreate(h, w) \/ StartResolve(h, w) \/ StartDeactivate(h, w)
  \/ StartDelete(h, w) \/ StartGet(h, w) \/ StartUpdate(h, w) \/ StartIncrement(h, w)

\* Concurrent handlers: the service's create, resolve, deactivate and delete
\* and the repository's get_url_by_short_code, update_url and
\* increment_click_count, in every interleaving of their awaited calls.
NextRace ==
  \/ \E h \in Handlers :
       StartRace(h, Load(MaxRaceRequests, TRUE, Aliases, {0})) \/ RaceStep(h)
  \/ Tick
  \/ Evict

InitRace == InitSeeded /\ expiry_days = 0

SpecRace == InitRace /\ [][NextRace]_vars

\* A finished successful update_url of handler g and, of handler h, a
\* get_url_by_short_code of the record's code or an update_url of the record.
UpdateRaced(g, h) ==
  /\ g # h /\ Done(g) /\ Done(h)
  /\ req[g].op = "update" /\ out[g].kind = "record" /\ out[g].rec # {}
  /\ \/ req[h].op = "get" /\ \E o \in out[g].rec : o.short_code = req[h].code
     \/ req[h].op = "update" /\ req[h].id = req[g].id

\* C32: once a successful update_url and a concurrent get_url_by_short_code
\* or update_url of the same record have all finished, the cache entry of the
\* record's code, if there is one, is the table's row (in the cache's form).
CacheFreshAfterUpdate ==
  \A g, h \in Handlers :
    UpdateRaced(g, h) =>
      \A r \in StoreById(req[g].id) : CacheLookup(r.short_code) \subseteq {to_dict(r)}

\* A finished successful increment_click_count of handler g and, of handler
\* h, a get_url_by_short_code of the same code; no other request has run, so
\* the count of the row is still the count at the invalidation.
IncrementRaced(g, h) ==
  /\ g # h /\ Done(g)
  /\ req[g].op = "increment" /\ out[g].kind = "True"
  /\ req[h].op = "get" /\ req[h].code = req[g].code
  /\ hist[g].req.op = "none" /\ hist[h].req.op = "none"

\* C33: after a successful increment_click_count has invalidated the code's
\* cache entry, no entry of that code in the cache has a click_count below
\* the count of the table's row at the invalidation, whatever a concurrent
\* get_url_by_short_code does.
NoLowerCountCached ==
  \A g, h \in Handlers :
    IncrementRaced(g, h) =>
      \A r \in StoreByCode(req[g].code), e \in CacheLookup(req[g].code) :
        e.click_count >= r.click_count

(***************************************************************************)
(* Creates with and without expires_in_days under every kind of setting.   *)
(***************************************************************************)
MaxExpiryRequests == 2

MaxDays == 2

\* expires_in_days: None (written 0; the schema admits 1 to 3650, and the
\* code's test "if request.expires_in_days" takes 0 and None alike).
ExpiresInDays == 0..MaxDays

\* One handler that creates, one request after the other, while the clock
\* moves.
NextExpiry ==
  \/ StartCreate("h1", Load(MaxExpiryRequests, TRUE, Aliases \cup {NoCode}, ExpiresInDays))
  \/ CreateStep("h1")
  \/ Tick

\* settings.url_expiry_days is an int of any sign.
InitExpiry == InitEmpty /\ expiry_days \in -1..MaxDays

SpecExpiry == InitExpiry /\ [][NextExpiry]_vars

\* The days the specification gives a create: the request's when given, else
\* the setting's when positive, else none (written 0).
DaysToLive(h) ==
  IF req[h].days >= 1 THEN req[h].days
  ELSE IF expiry_days >= 1 THEN expiry_days
  ELSE 0

\* C34: the row a create inserts has expires_at null when neither the
\* request nor a positive setting gives a number of days, and otherwise the
\* service's clock during the create (between the arrival of the request and
\* the insert, which sets created_at) plus the request's expires_in_days
\* when given, else plus the setting's days.
ExpiryAsConfigured ==
  [][\A h \in Handlers :
       (pc[h] = "insert" /\ store' # store) =>
         \A r \in store' \ store :
           IF DaysToLive(h) = 0 THEN r.expires_at = None
           ELSE /\ r.expires_at.kind = "datetime"
                /\ r.expires_at.t - DaysToLive(h) \in loc[h].t0..r.created_at.t]_vars

OverrideBeatsSetting ==
  \E h \in Handlers :
    /\ CreateEnded(h) /\ out[h].kind = "created"
    /\ req[h].days = 1 /\ expiry_days = 2
    /\ \E r \in store : r.id = 2 /\ out[h].rec = {r} /\ r.expires_at = DateTime(r.created_at.t + 1)
    /\ \E r \in store : r.id = 1 /\ r.expires_at = DateTime(2)

\* Two finished successful creates, of one target or of two.
BothCreated(g, h) ==
  /\ g # h
  /\ CreateEnded(g) /\ out[g].kind = "created"
  /\ CreateEnded(h) /\ out[h].kind = "created"

\* C35: no create answers with a record it found in the table: a create
\* that succeeds has run one INSERT, which added exactly one row with an id
\* and a short_code no row had, and returns that row as refresh read it
\* back; two successful creates, of one normalized target as of two, return
\* two records with distinct short codes.
CreateInsertsNewRecord ==
  [][\A h \in Handlers :
       /\ (req'[h].op = "create" /\ pc[h] = "insert" /\ pc'[h] = "refresh") =>
            /\ store \subseteq store' /\ Cardinality(store' \ store) = 1
            /\ loc'[h].rec = store' \ store /\ loc'[h].inserts = 1
            /\ \A r \in store' \ store, x \in store :
                 x.id # r.id /\ x.short_code # r.short_code
       /\ (req'[h].op = "create" /\ pc[h] = "refresh" /\ pc'[h] = "cache_set") =>
            {o.id : o \in loc'[h].rec} = {o.id : o \in loc[h].rec}
       /\ (req'[h].op = "create" /\ ~Done(h) /\ Done(h)' /\ out'[h].kind = "created") =>
            /\ pc[h] = "cache_set" /\ loc'[h].inserts = 1
            /\ out'[h].rec = loc[h].rec /\ Cardinality(out'[h].rec) = 1
       /\ \A g \in Handlers :
            BothCreated(g, h)' =>
              \A o \in out'[g].rec, r \in out'[h].rec :
                o.id # r.id /\ o.short_code # r.short_code]_vars

SameTargetTwoRecords ==
  \E g, h \in Handlers :
    /\ BothCreated(g, h)
    /\ RandomRow(1, FirstCode) \in store
    /\ req[g].url = UrlA /\ req[h].url = UrlA
    /\ req[g].alias = NoCode /\ req[h].alias = Promo
    /\ Cardinality({r \in store : r.original_url = normalize_url(UrlA)}) = 3

\* A create whose call of create_url has just ended with an error.
CreateFails(h) ==
  /\ req'[h].op = "create" /\ ~Done(h) /\ Done(h)'
  /\ loc'[h].inserts >= 1 /\ out'[h].kind # "created"

\* C36: a create_url that ends with an error, ShortURLExistsError or
\* DatabaseError, has written no cache entry and leaves the table as it was
\* when the request arrived, without the new row.
FailedCreateLeavesNothing ==
  [][\A h \in Handlers :
       CreateFails(h) => cache' = cache /\ store' = loc'[h].before]_vars

\* A finished resolve that ended with URLNotFoundError or URLExpiredError.
ResolveRefused(h) ==
  /\ Done(h) /\ req[h].op = "resolve"
  /\ out[h].kind \in {"URLNotFoundError", "URLExpiredError"}

\* C37: a resolve that ends with URLNotFoundError or URLExpiredError leaves
\* every row of the table as it was when the request arrived: click_count,
\* last_accessed_at, is_active and every other column.
RefusedResolveChangesNothing ==
  \A h \in Handlers : ResolveRefused(h) => store = loc[h].before

ExpiredStaysActive ==
  \E h \in Handlers :
    /\ ResolveRefused(h) /\ out[h].kind = "URLExpiredError"
    /\ loc[h].fault = "none"
    /\ \E r \in store :
         /\ r.short_code = req[h].code /\ r.is_active /\ PastExpiry(r, now)
         /\ r.click_count = 0 /\ r.last_accessed_at = None

(***************************************************************************)
(* short_code and custom_alias of a row.                                   *)
(***************************************************************************)
MaxAliasRequests == 3

AliasColumns == {"original_url", "custom_alias"}

\* One handler, one request at a time: creates with and without alias,
\* resolves, and update_url given one of two columns to write.
NextAlias ==
  \/ StartCreate("h1", Load(MaxAliasRequests, TRUE, Aliases \cup {NoCode}, {0}))
  \/ StartResolve("h1", Load(MaxAliasRequests, TRUE, Aliases, {0}))
  \/ StartUpdate("h1", Writing(Load(MaxAliasRequests, TRUE, Aliases, {0}), AliasColumns))
  \/ CreateStep("h1")
  \/ ResolveStep("h1")
  \/ Update("h1")

InitAlias == InitEmpty /\ expiry_days = 0

SpecAlias == InitAlias /\ [][NextAlias]_vars

ResolveIncrements(h) ==
  req[h].op = "resolve" /\ pc[h] = "increment" /\ pc'[h] = "cache_delete"

\* C39: the UPDATE of a resolve's increment_click_count raises the
\* click_count only of a row that is active at that moment and is the record
\* (by id) the resolve read and whose original_url it returns, whatever
\* deactivate, delete and create do meanwhile.
ClicksOnlyOnResolvedActive ==
  [][\A h \in Handlers :
       ResolveIncrements(h) =>
         \A r \in store, x \in store' :
           (x.id = r.id /\ x.click_count > r.click_count) =>
             /\ r.is_active
             /\ \A o \in loc[h].rec : o.id = r.id]_vars

\* Two finished deletes of one code whose row, the same for both, was in the
\* table when each of them arrived.
DeletesRaced(g, h) ==
  /\ g # h /\ Done(g) /\ Done(h)
  /\ req[g].op = "delete" /\ req[h].op = "delete" /\ req[g].code = req[h].code
  /\ loc[g].pre # {}
  /\ {r.id : r \in loc[g].pre} = {r.id : r \in loc[h].pre}

\* C40: of two concurrent deletes of one existing code exactly one returns
\* True; the other returns False or raises URLNotFoundError, neither ends
\* with a store error, and the row is gone.
DeleteRaceHasOneWinner ==
  \A g, h \in Handlers :
    DeletesRaced(g, h) =>
      /\ \A r \in store, x \in loc[g].pre : r.id # x.id
      /\ Cardinality({k \in {g, h} : out[k].kind = "True"}) = 1
      /\ \A k \in {g, h} : out[k].kind \in {"True", "False", "URLNotFoundError"}

DeleteRaceSeen ==
  \E g, h \in Handlers :
    /\ DeletesRaced(g, h)
    /\ out[g].kind = "True" /\ out[h].kind = "False"
    /\ loc[g].hit /\ ~loc[h].hit

====
